---- MODULE Spec2Model ----
(***************************************************************************)
(* sedock: the fanotify file-access monitor (src/src/monitor).             *)
(*                                                                         *)
(* The main thread runs run_monitor -> start_monitoring: startup checks,   *)
(* fanotify_init / fanotify_mark, then the event loop that reads batches   *)
(* of fanotify_event_metadata records and walks them.  The ctrlc handler   *)
(* thread clears the `running` flag and then calls process::exit(0).       *)
(*                                                                         *)
(* Strings are sequences of one-character strings, so that starts_with     *)
(* and format!("[{}]", pid) are computed, not assumed.                      *)
(*                                                                         *)
(* Environment assumptions: writes to stdout and stderr succeed (println!  *)
(* and eprintln! do not panic); the kernel hands out the lowest free       *)
(* descriptor numbers for the per-event fds.                               *)
(***************************************************************************)
EXTENDS Integers, Sequences, FiniteSets, TLC

\* ------------------------------------------------------------------ bounds
\* Total number of records the kernel delivers in one run of the model.
MaxEvents == 2
\* Largest number of records one read() returns.
MaxBatch == 2

\* ------------------------------------------------------- program constants
FAN_OPEN == 32
FAN_ACCESS == 1
FAN_MODIFY == 2
\* The only metadata version the walk accepts (fanotify.rs:162).
FANOTIFY_METADATA_VERSION == 3
\* LruCache capacity of ProcessCache::new.
LRU_CAPACITY == 1000
\* size_of::<FanotifyEventMetadata>(): 4 + 1 + 1 + 2 + 8 + 4 + 4 bytes.
FAN_EVENT_METADATA_LEN == 24
\* The descriptor number fanotify_init returns: the lowest free one after the
\* standard streams 0, 1, 2.
FAN_FD == 3

\* Option<T>: None is the empty sequence, Some(x) the one-element sequence.
None == <<>>
Some(x) == <<x>>

\* ------------------------------------------------------------------ strings
DigitChar(d) == CASE d = 0 -> "0" [] d = 1 -> "1" [] d = 2 -> "2" [] d = 3 -> "3"
                  [] d = 4 -> "4" [] d = 5 -> "5" [] d = 6 -> "6" [] d = 7 -> "7"
                  [] d = 8 -> "8" [] d = 9 -> "9"

RECURSIVE FormatInt(_)
\* format!("{}", n) for n >= 0: the decimal digits of n.
FormatInt(n) == IF n < 10 THEN <<DigitChar(n)>>
                ELSE FormatInt(n \div 10) \o <<DigitChar(n % 10)>>

\* format!("[{}]", pid)
PidSentinel(pid) == <<"[">> \o FormatInt(pid) \o <<"]">>

\* str::starts_with(char)
StartsWith(s, c) == Len(s) > 0 /\ s[1] = c

\* ------------------------------------------------------------- bit masks
RECURSIVE BitAnd(_, _)
\* a & b on non-negative integers.
BitAnd(a, b) == IF a = 0 \/ b = 0 THEN 0
                ELSE 2 * BitAnd(a \div 2, b \div 2) + (IF a % 2 = 1 /\ b % 2 = 1 THEN 1 ELSE 0)

\* ------------------------------------------------- the environment (/proc)
\* The pids that cause events, the masks the kernel reports for the mark
\* FAN_OPEN | FAN_ACCESS | FAN_MODIFY, and what /proc answers.
Pids == {7, 12}
Masks == {FAN_ACCESS, FAN_OPEN + FAN_ACCESS + FAN_MODIFY}
PathA == <<"/", "d", "/", "a">>
Unknown == <<"u", "n", "k", "n", "o", "w", "n">>
\* What read_link("/proc/self/fd/<fd>") yields: Some(path) or None on error.
LinkResults == {Some(PathA), None}
\* What reading /proc/<pid>/status yields.
Versions == {FANOTIFY_METADATA_VERSION, 2}

ExeCat == <<"/", "b", "i", "n", "/", "c", "a", "t">>
\* The short name of that binary, as comm and the Name field give it.
NameCat == <<"c", "a", "t">>

\* The ProcessInfo get_process_info assembles for a live pid: pid 7 is a host
\* process with a resolved exe, pid 12 a containerised process whose exe could
\* not be resolved (the "[<pid>]" sentinel of get_process_path).
ProcUid(pid) == IF pid = 7 THEN 1000 ELSE 33
ProcGid(pid) == IF pid = 7 THEN 1000 ELSE 34
ProcContainerPid(pid) == IF pid = 7 THEN None ELSE Some(1)
ProcExe(pid) == IF pid = 7 THEN ExeCat ELSE PidSentinel(pid)
ProcCgroupId(pid) == IF pid = 7 THEN None ELSE Some(<<"a", "1", "b", "2">>)

\* What get_process_info(pid) returns when /proc/<pid>/status was read.
ProcessInfo(pid) ==
    [pid |-> pid, uid |-> ProcUid(pid), gid |-> ProcGid(pid),
     container_pid |-> ProcContainerPid(pid), exe |-> ProcExe(pid)]

\* Mutant: a vanished /proc/<pid>/status is not told apart from other errors.
GetProcessInfoGoneIsError(ev) ==
    IF ev.snap = "Ok" THEN [tag |-> "Ok", info |-> ProcessInfo(ev.pid)]
    ELSE [tag |-> "OtherError", info |-> None]

\* process::get_process_info as the walk sees it: Ok(info), Err(ProcessGone)
\* or another Err, decided by the read of /proc/<pid>/status.
GetProcessInfo(ev) ==
    CASE ev.snap = "Ok" -> [tag |-> "Ok", info |-> ProcessInfo(ev.pid)]
      [] ev.snap = "ProcessGone" -> [tag |-> "ProcessGone", info |-> None]
      [] OTHER -> [tag |-> "OtherError", info |-> None]

\* process::get_process_path: every read under /proc/<pid> fails once the
\* process is gone, which leaves the "[<pid>]" sentinel.
GetProcessPath(ev) ==
    IF ev.snap = "Ok" THEN ProcExe(ev.pid) ELSE PidSentinel(ev.pid)

\* process::get_container_id: None when /proc/<pid>/cgroup cannot be read.
GetContainerId(ev) ==
    IF ev.snap = "Ok" THEN ProcCgroupId(ev.pid) ELSE None

\* Mutant: an unresolved link yields the empty string.
GetPathFromFdEmpty(ev) ==
    IF ev.link = None THEN <<>> ELSE ev.link[1]

\* get_path_from_fd: the link target, or the literal "unknown".
GetPathFromFd(ev) ==
    IF ev.link = None THEN Unknown ELSE ev.link[1]

\* ------------------------------------------------------ EventDeduplicator
\* Mutant: a new deduplicator holds a triple that an event can have.
DedupNewLikeAnEvent == [last_pid |-> 0, last_mask |-> FAN_ACCESS, last_path |-> Unknown]

\* EventDeduplicator::new
DedupNew == [last_pid |-> 0, last_mask |-> 0, last_path |-> <<>>]

\* Mutant: the mask is left out of the comparison.
IsDuplicateIgnoringMask(d, pid, mask, path) ==
    [is_dup |-> pid = d.last_pid /\ path = d.last_path,
     d |-> [last_pid |-> pid, last_mask |-> mask, last_path |-> path]]

\* Mutant: the last-seen triple is never updated.
IsDuplicateNoUpdate(d, pid, mask, path) ==
    [is_dup |-> pid = d.last_pid /\ mask = d.last_mask /\ path = d.last_path,
     d |-> d]

\* Mutant: one equal component is enough.
IsDuplicateAnyField(d, pid, mask, path) ==
    [is_dup |-> pid = d.last_pid \/ mask = d.last_mask \/ path = d.last_path,
     d |-> [last_pid |-> pid, last_mask |-> mask, last_path |-> path]]

\* EventDeduplicator::is_duplicate: the answer and the updated state.
IsDuplicate(d, pid, mask, path) ==
    [is_dup |-> pid = d.last_pid /\ mask = d.last_mask /\ path = d.last_path,
     d |-> [last_pid |-> pid, last_mask |-> mask, last_path |-> path]]

\* Mutant: a deduplicator is created whatever the flag says.
MakeDedupAlways(flag) == Some(DedupNew)

\* The deduplicator start_monitoring creates: none when the flag is set.
MakeDedup(flag) == IF flag THEN None ELSE Some(DedupNew)

\* ---------------------------------------------------------- ProcessCache
\* The LruCache<i32, String> as a sequence of entries, most recently used
\* first.
\* Index of the entry of key k in c (a key has one entry), 0 when absent.
LruFind(c, k) ==
    IF \E i \in DOMAIN c : c[i].k = k
    THEN CHOOSE i \in DOMAIN c : c[i].k = k
    ELSE 0

LruWithout(c, k) == SelectSeq(c, LAMBDA e : e.k # k)

\* Mutant: put never evicts.
LruPutUnbounded(c, k, v) == <<[k |-> k, v |-> v]>> \o LruWithout(c, k)

\* LruCache::put: insert or replace, promote to most recent, evict the least
\* recently used entry beyond the capacity.
LruPut(c, k, v) ==
    LET all == <<[k |-> k, v |-> v]>> \o LruWithout(c, k)
    IN IF Len(all) > LRU_CAPACITY THEN SubSeq(all, 1, LRU_CAPACITY) ELSE all

\* LruCache::get: the value (promoting the entry) or None.
LruGet(c, k) ==
    LET i == LruFind(c, k)
    IN IF i = 0 THEN [val |-> None, c |-> c]
       ELSE [val |-> Some(c[i].v), c |-> <<c[i]>> \o LruWithout(c, k)]

\* ProcessCache::get_or_fetch; `fetched` is what get_process_path answers.
GetOrFetch(c, pid, fetched) ==
    LET hit == LruGet(c, pid)
    IN IF hit.val # None THEN [exe |-> hit.val[1], c |-> hit.c]
       ELSE IF ~StartsWith(fetched, "[")
            THEN [exe |-> fetched, c |-> LruPut(c, pid, fetched)]
            ELSE [exe |-> PidSentinel(pid), c |-> c]

\* ---------------------------------------------------------- handle_event
\* Mutant: the OPEN bit is tested before the MODIFY bit.
ClassifyOpenFirst(mask) ==
    IF BitAnd(mask, FAN_OPEN) # 0 THEN "Open"
    ELSE IF BitAnd(mask, FAN_MODIFY) # 0 THEN "Write"
    ELSE "Read"

\* The event type handle_event picks from the mask.
Classify(mask) ==
    IF BitAnd(mask, FAN_MODIFY) # 0 THEN "Write"
    ELSE IF BitAnd(mask, FAN_OPEN) # 0 THEN "Open"
    ELSE "Read"

\* impl Display for EventType
EventTypeToString(t) ==
    CASE t = "Open" -> "OPEN" [] t = "Read" -> "READ"
      [] t = "Write" -> "WRITE" [] t = "Modify" -> "MODIFY"

\* event::create_event (the timestamp is the wall clock and is left out).
CreateEvent(event_type, pid, container_pid, uid, gid, process_path, file_path, container_id) ==
    [event_type |-> EventTypeToString(event_type), pid |-> pid,
     container_pid |-> container_pid, uid |-> uid, gid |-> gid,
     process_path |-> process_path, file_path |-> file_path,
     container_id |-> container_id]

\* serde_json of an Option field: the struct derives Serialize with no
\* skip_serializing_if, so None is written as null.
JsonOption(opt) == IF opt = None THEN "null" ELSE opt[1]

\* serde_json::to_string(&event): one member per field of FileAccessEvent,
\* in declaration order; "<now>" stands for the formatted local time.
ToJson(event) ==
    << [key |-> "event_type", value |-> event.event_type],
       [key |-> "timestamp", value |-> "<now>"],
       [key |-> "pid", value |-> event.pid],
       [key |-> "container_pid", value |-> JsonOption(event.container_pid)],
       [key |-> "uid", value |-> event.uid],
       [key |-> "gid", value |-> event.gid],
       [key |-> "process_path", value |-> event.process_path],
       [key |-> "file_path", value |-> event.file_path],
       [key |-> "container_id", value |-> JsonOption(event.container_id)] >>

\* truncate_string
TruncateString(s, max_len) ==
    IF Len(s) <= max_len THEN s
    ELSE <<".", ".", ".">> \o SubSeq(s, Len(s) - (max_len - 3) + 1, Len(s))

\* The width the text row gives the process path.
PROCESS_PATH_WIDTH == 25

\* The text row: type, pid or pid/container_pid, uid, gid, the truncated
\* process path, the container id or "-", the file path.
ToTextRow(event, container_id) ==
    << event.event_type,
       IF event.container_pid # None THEN <<event.pid, event.container_pid[1]>>
                                     ELSE <<event.pid>>,
       event.uid, event.gid,
       TruncateString(event.process_path, PROCESS_PATH_WIDTH),
       IF container_id # None THEN container_id[1] ELSE <<"-">>,
       event.file_path >>

\* The output formats of the command line.
Formats == {"text", "json"}

\* The values of --format: the argument is a free string, so besides the
\* two formats any other word can be given.
FormatArgs == Formats \cup {"csv"}

\* handle_event, the println! of the event in the chosen format.
PrintEvent(format, event, container_id) ==
    IF format = "json"
    THEN [fmt |-> "json", obj |-> ToJson(event)]
    ELSE [fmt |-> "text", cols |-> ToTextRow(event, container_id)]

\* Mutant: nothing is printed for a process that is gone.
HandleEventDropsGone(ev, file_path, proc_info, container_id, cache) ==
    LET event == CreateEvent(Classify(ev.mask), ev.pid, proc_info[1].container_pid,
                             proc_info[1].uid, proc_info[1].gid, proc_info[1].exe,
                             file_path, container_id)
    IN [res |-> "Ok",
        printed |-> IF proc_info = None THEN <<>> ELSE <<event>>,
        cache |-> cache]

\* Mutant: one record is printed per bit of the mask, not one per event.
HandleEventPerBit(ev, file_path, proc_info, container_id, cache) ==
    LET fetch == GetOrFetch(cache, ev.pid, GetProcessPath(ev))
        gone == proc_info = None
        event(t) == IF gone
                    THEN CreateEvent(t, ev.pid, None, 0, 0, fetch.exe,
                                     file_path, container_id)
                    ELSE CreateEvent(t, ev.pid, proc_info[1].container_pid,
                                     proc_info[1].uid, proc_info[1].gid,
                                     proc_info[1].exe, file_path, container_id)
    IN [res |-> "Ok",
        printed |-> (IF BitAnd(ev.mask, FAN_MODIFY) # 0 THEN <<event("Write")>> ELSE <<>>)
                    \o (IF BitAnd(ev.mask, FAN_OPEN) # 0 THEN <<event("Open")>> ELSE <<>>)
                    \o (IF BitAnd(ev.mask, FAN_ACCESS) # 0 THEN <<event("Read")>> ELSE <<>>),
        cache |-> IF gone THEN fetch.c ELSE cache]

\* handle_event: the lines it prints (one record), its Result, and the
\* process cache after the lookup of a gone process.
HandleEvent(ev, file_path, proc_info, container_id, cache) ==
    LET event_type == Classify(ev.mask)
        fetch == GetOrFetch(cache, ev.pid, GetProcessPath(ev))
        gone == proc_info = None
        event == IF gone
                 THEN CreateEvent(event_type, ev.pid, None, 0, 0, fetch.exe,
                                  file_path, container_id)
                 ELSE CreateEvent(event_type, ev.pid, proc_info[1].container_pid,
                                  proc_info[1].uid, proc_info[1].gid, proc_info[1].exe,
                                  file_path, container_id)
    IN [res |-> "Ok", printed |-> <<event>>,
        cache |-> IF gone THEN fetch.c ELSE cache]

\* ------------------------------------------------------------------ state
VARIABLES
    pc,        \* where the main thread is: "start", "init", "loop", "read",
               \* "walk", "cleanup", or "exited" once the process is gone
    exitCode,  \* None while the process runs, Some(status) after it exited
    running,   \* the AtomicBool the ctrlc handler clears
    sig,       \* the ctrlc handler thread: "none", "stored" (flag cleared,
               \* exit not yet called), "done" (it has called exit)
    fanFd,     \* the fanotify descriptor: "none", "open", "closed"
    verbose,   \* the CLI flag that disables deduplication
    dedup,     \* Option<EventDeduplicator>
    lru,       \* proc_cache.cache
    buffer,    \* the records of the batch the last read returned
    len,       \* the return value of the last read
    err,       \* errno of the last read when len < 0
    offset,    \* byte offset of the walk in the buffer
    openFds,   \* the per-event descriptors that are open in this process
    drained,   \* history: every record a read has returned, in order
    closes,    \* history: how often close() was called for drained[i]
    fate,      \* history: what the walk did with drained[i]
    out,       \* stdout: the event records printed, in order
    env,       \* what the system answers to the startup checks and calls
    fatal,     \* Option<SedockerError>: the Err main has reported on stderr
    arg,       \* the input of a function that is applied on its own
    ret,       \* ... and what it returned
    format,    \* the --format argument
    headers,   \* history: Len(out) at each time the table header was printed
    cleared    \* history, kept where the handler notes it: None, or Some of
               \* where the main thread was and how many records were
               \* out when the handler cleared the running flag

vars == <<pc, exitCode, running, sig, fanFd, verbose, dedup, lru, buffer, len,
          err, offset, openFds, drained, closes, fate, out, env, fatal, arg, ret,
          format, headers, cleared>>

loopVars == <<dedup, lru, buffer, offset, openFds, drained, closes, fate, out>>

\* The raw events the kernel can deliver together with what /proc answers
\* while each is handled.  A record of another version is never looked at
\* beyond its version, and a record whose snapshot fails with another error
\* never beyond its pid and fd, so their other fields are fixed.
GoodInputs == [vers : {FANOTIFY_METADATA_VERSION}, mask : Masks, pid : Pids,
               link : LinkResults, snap : {"Ok", "ProcessGone"}]
ErrorInputs == [vers : {FANOTIFY_METADATA_VERSION}, mask : {FAN_ACCESS}, pid : Pids,
                link : {Some(PathA)}, snap : {"OtherError"}]
BadInputs == [vers : Versions \ {FANOTIFY_METADATA_VERSION}, mask : {FAN_ACCESS},
              pid : {7}, link : {Some(PathA)}, snap : {"Ok"}]
RawInputs == GoodInputs \cup ErrorInputs \cup BadInputs

RECURSIVE LowestFree(_, _)
\* The lowest descriptor number >= n that is not in use.
LowestFree(used, n) == IF n \in used THEN LowestFree(used, n + 1) ELSE n

RECURSIVE Deliver(_, _)
\* The kernel fills in event_len and opens one descriptor per record.
Deliver(inputs, used) ==
    IF inputs = <<>> THEN <<>>
    ELSE LET fd == LowestFree(used, 0)
             i == inputs[1]
         IN <<[event_len |-> FAN_EVENT_METADATA_LEN, vers |-> i.vers,
               mask |-> i.mask, fd |-> fd, pid |-> i.pid,
               link |-> i.link, snap |-> i.snap]>>
            \o Deliver(Tail(inputs), used \cup {fd})

\* ------------------------------------------------------ startup answers
\* What the system answers at startup: whether the directory exists, whether
\* the effective uid is 0, whether fanotify_init and fanotify_mark succeed,
\* and whether the path is free of NUL bytes (Path::exists is false for a
\* path with a NUL byte, so such a path never counts as existing).
Environments ==
    {e \in [dirExists : BOOLEAN, isRoot : BOOLEAN, initOk : BOOLEAN,
            pathValid : BOOLEAN, markOk : BOOLEAN] : e.dirExists => e.pathValid}

GoodEnvironment ==
    [dirExists |-> TRUE, isRoot |-> TRUE, initOk |-> TRUE, pathValid |-> TRUE,
     markOk |-> TRUE]

\* The errors of the startup path, their messages as sequences of words;
\* "<dir>" and "<nul>" stand for the directory and the NulError inserted.
ErrDirectoryMissing ==
    [kind |-> "System", msg |-> <<"Directory", "does", "not", "exist:", "<dir>">>]
ErrNotRoot ==
    [kind |-> "Permission", msg |-> <<"This", "tool", "requires", "root", "privileges">>]
ErrFanotifyInit ==
    [kind |-> "Fanotify", msg |-> <<"Failed", "to", "initialize", "fanotify.",
                                   "Are", "you", "running", "as", "root?">>]
ErrInvalidPath ==
    [kind |-> "System", msg |-> <<"Invalid", "directory", "path:", "<nul>">>]
ErrFanotifyMark ==
    [kind |-> "Fanotify", msg |-> <<"Failed", "to", "mark", "directory:", "<dir>">>]

\* impl Display for SedockerError (thiserror)
Display(e) ==
    CASE e.kind = "Permission" -> <<"Permission", "denied:">> \o e.msg
      [] e.kind = "Fanotify" -> <<"Fanotify", "error:">> \o e.msg
      [] e.kind = "System" -> <<"System", "error:">> \o e.msg

\* main: eprintln!("Error: {}", e)
ErrorLine(e) == <<"Error:">> \o Display(e)

Init ==
    /\ pc = "start"
    /\ exitCode = None
    /\ running = TRUE
    /\ sig = "none"
    /\ fanFd = "none"
    /\ verbose \in BOOLEAN
    /\ dedup = None
    /\ lru = <<>>
    /\ buffer = <<>>
    /\ len = 0
    /\ err = "none"
    /\ offset = 0
    /\ openFds = {}
    /\ drained = <<>>
    /\ closes = <<>>
    /\ fate = <<>>
    /\ out = <<>>
    /\ env \in Environments
    /\ fatal = None
    /\ arg = None
    /\ ret = None
    /\ format = "text"
    /\ headers = <<>>
    /\ cleared = None

\* main: an Err from run_monitor is printed and the process exits with 1.
ExitWith(code) ==
    /\ pc' = "exited"
    /\ exitCode' = Some(code)

\* run_monitor: the directory must exist and the effective uid must be 0,
\* checked in this order; the first check that fails is the Err returned.
RunMonitorNoEuidCheck(e) ==
    IF ~e.dirExists THEN Some(ErrDirectoryMissing) ELSE None

RunMonitorCheck(e) ==
    IF ~e.dirExists THEN Some(ErrDirectoryMissing)
    ELSE IF ~e.isRoot THEN Some(ErrNotRoot)
    ELSE None

RunMonitor ==
    /\ pc = "start"
    /\ LET failed == RunMonitorCheck(env)
       IN IF failed = None
          THEN pc' = "init" /\ exitCode' = exitCode /\ fatal' = fatal
          ELSE ExitWith(1) /\ fatal' = failed
    /\ UNCHANGED <<running, sig, fanFd, verbose, format, headers, cleared, env, arg, ret, len, err>>
    /\ UNCHANGED loopVars

\* start_monitoring up to the event loop: fanotify_init, CString::new,
\* fanotify_mark; the Err of the first call that fails, None when all succeed.
StartMonitoringIgnoresMark(e) ==
    IF ~e.initOk THEN Some(ErrFanotifyInit)
    ELSE IF ~e.pathValid THEN Some(ErrInvalidPath)
    ELSE None

StartMonitoringCheck(e) ==
    IF ~e.initOk THEN Some(ErrFanotifyInit)
    ELSE IF ~e.pathValid THEN Some(ErrInvalidPath)
    ELSE IF ~e.markOk THEN Some(ErrFanotifyMark)
    ELSE None

\* ... then the table header when the format is "text", the deduplicator and
\* the process cache.  An Err is returned with `?` or `return`, neither of
\* which closes fan_fd.
StartMonitoring ==
    /\ pc = "init"
    /\ LET failed == StartMonitoringCheck(env)
       IN /\ fanFd' = IF env.initOk THEN "open" ELSE "none"
          /\ IF failed = None
             THEN /\ pc' = "loop"
                  /\ exitCode' = exitCode
                  /\ fatal' = fatal
                  /\ headers' = IF format = "text" THEN Append(headers, Len(out))
                                                   ELSE headers
                  /\ dedup' = MakeDedup(verbose)
             ELSE /\ ExitWith(1)
                  /\ fatal' = failed
                  /\ headers' = headers
                  /\ dedup' = dedup
    /\ lru' = <<>>
    /\ UNCHANGED <<running, sig, verbose, format, cleared, env, arg, ret, len, err>>
    /\ UNCHANGED <<buffer, offset, openFds, drained, closes, fate, out>>

\* Mutant: the loop goes on whatever the flag holds.
LoopCheckIgnoresFlag ==
    /\ pc = "loop"
    /\ pc' = "read"
    /\ UNCHANGED <<exitCode, running, sig, fanFd, verbose, format, headers, cleared, env, fatal, arg, ret, len, err>>
    /\ UNCHANGED loopVars

\* while running.load(SeqCst)
LoopCheck ==
    /\ pc = "loop"
    /\ pc' = IF running THEN "read" ELSE "cleanup"
    /\ UNCHANGED <<exitCode, running, sig, fanFd, verbose, format, headers, cleared, env, fatal, arg, ret, len, err>>
    /\ UNCHANGED loopVars

\* read() fails with EAGAIN / EWOULDBLOCK: sleep 100 us, continue.
ReadWouldBlock ==
    /\ pc = "read"
    /\ len' = -1
    /\ err' = "EAGAIN"
    /\ pc' = "loop"
    /\ UNCHANGED <<exitCode, running, sig, fanFd, verbose, format, headers, cleared, env, fatal, arg, ret>>
    /\ UNCHANGED loopVars

\* Mutant: a read error other than would-block ends the monitor with an Err.
ReadErrorFatal ==
    /\ pc = "read"
    /\ len' = -1
    /\ err' = "EIO"
    /\ pc' = "exited"
    /\ exitCode' = Some(1)
    /\ UNCHANGED <<running, sig, fanFd, verbose, format, headers, cleared, env, fatal, arg, ret>>
    /\ UNCHANGED loopVars

\* read() fails with another errno: log, continue.
ReadError ==
    /\ pc = "read"
    /\ len' = -1
    /\ err' = "EIO"
    /\ pc' = "loop"
    /\ UNCHANGED <<exitCode, running, sig, fanFd, verbose, format, headers, cleared, env, fatal, arg, ret>>
    /\ UNCHANGED loopVars

\* read() returns 0: continue.
ReadZero ==
    /\ pc = "read"
    /\ len' = 0
    /\ err' = "none"
    /\ pc' = "loop"
    /\ UNCHANGED <<exitCode, running, sig, fanFd, verbose, format, headers, cleared, env, fatal, arg, ret>>
    /\ UNCHANGED loopVars

\* read() returns a batch of n records.
ReadBatch ==
    /\ pc = "read"
    /\ Len(drained) < MaxEvents
    /\ \E n \in 1..MaxBatch :
          /\ Len(drained) + n <= MaxEvents
          /\ \E inputs \in [1..n -> RawInputs] :
                LET batch == Deliver(inputs, {0, 1, 2, FAN_FD} \cup openFds)
                IN /\ buffer' = batch
                   /\ len' = n * FAN_EVENT_METADATA_LEN
                   /\ drained' = drained \o batch
                   /\ closes' = closes \o [i \in 1..n |-> 0]
                   /\ fate' = fate \o [i \in 1..n |-> "queued"]
                   /\ openFds' = openFds \cup {batch[i].fd : i \in 1..n}
    /\ err' = "none"
    /\ offset' = 0
    /\ pc' = "walk"
    /\ UNCHANGED <<exitCode, running, sig, fanFd, verbose, format, headers, cleared, env, fatal, arg, ret, dedup, lru, out>>

\* ------------------------------------------------------------ the batch walk
\* The record at the walk's offset (&*(buffer.as_ptr().add(offset))), and its
\* position in the history of drained records.
Metadata == buffer[(offset \div FAN_EVENT_METADATA_LEN) + 1]
CurIndex == (Len(drained) - Len(buffer)) + (offset \div FAN_EVENT_METADATA_LEN) + 1

InWalk == pc = "walk" /\ offset < len

\* libc::close(metadata.fd)
CloseEventFd ==
    /\ openFds' = openFds \ {Metadata.fd}
    /\ closes' = [closes EXCEPT ![CurIndex] = @ + 1]

\* offset += metadata.event_len, then the test of `while offset < len`.
NextRecord ==
    /\ offset' = offset + Metadata.event_len
    /\ pc' = IF offset + Metadata.event_len < len THEN "walk" ELSE "loop"

\* Mutant: a record of another version ends the monitor with an Err.
WalkBadVersionReturnsErr ==
    /\ InWalk
    /\ Metadata.vers # FANOTIFY_METADATA_VERSION
    /\ pc' = "exited"
    /\ exitCode' = Some(1)
    /\ fate' = [fate EXCEPT ![CurIndex] = "badversion"]
    /\ UNCHANGED <<running, sig, fanFd, verbose, format, headers, cleared, env, fatal, arg, ret, len, err>>
    /\ UNCHANGED <<dedup, lru, buffer, offset, openFds, drained, closes, out>>

\* metadata.vers != 3: log and break out of the walk.
WalkBadVersion ==
    /\ InWalk
    /\ Metadata.vers # FANOTIFY_METADATA_VERSION
    /\ pc' = "loop"
    /\ fate' = [fate EXCEPT ![CurIndex] = "badversion"]
    /\ UNCHANGED <<exitCode, running, sig, fanFd, verbose, format, headers, cleared, env, fatal, arg, ret, len, err>>
    /\ UNCHANGED <<dedup, lru, buffer, offset, openFds, drained, closes, out>>

\* Mutant: the snapshot error is propagated with `?` instead of being logged.
WalkOtherErrorReturnsErr ==
    /\ InWalk
    /\ Metadata.vers = FANOTIFY_METADATA_VERSION
    /\ GetProcessInfo(Metadata).tag = "OtherError"
    /\ pc' = "exited"
    /\ exitCode' = Some(1)
    /\ fate' = [fate EXCEPT ![CurIndex] = "othererror"]
    /\ UNCHANGED <<running, sig, fanFd, verbose, format, headers, cleared, env, fatal, arg, ret, len, err>>
    /\ UNCHANGED <<dedup, lru, buffer, offset, openFds, drained, closes, out>>

\* Mutant: the failed snapshot ends the walk of the batch.
WalkOtherErrorBreaks ==
    /\ InWalk
    /\ Metadata.vers = FANOTIFY_METADATA_VERSION
    /\ GetProcessInfo(Metadata).tag = "OtherError"
    /\ CloseEventFd
    /\ pc' = "loop"
    /\ fate' = [fate EXCEPT ![CurIndex] = "othererror"]
    /\ UNCHANGED <<exitCode, running, sig, fanFd, verbose, format, headers, cleared, env, fatal, arg, ret, len, err>>
    /\ UNCHANGED <<dedup, lru, buffer, offset, drained, out>>

\* get_process_info fails with an error other than ProcessGone: log, close
\* the fd, go on with the next record.
WalkOtherError ==
    /\ InWalk
    /\ Metadata.vers = FANOTIFY_METADATA_VERSION
    /\ GetProcessInfo(Metadata).tag = "OtherError"
    /\ CloseEventFd
    /\ NextRecord
    /\ fate' = [fate EXCEPT ![CurIndex] = "othererror"]
    /\ UNCHANGED <<exitCode, running, sig, fanFd, verbose, format, headers, cleared, env, fatal, arg, ret, len, err>>
    /\ UNCHANGED <<dedup, lru, buffer, drained, out>>

\* The cache after a successful snapshot: the exe is stored unless it is the
\* "[<pid>]" form.
CacheAfterSnapshot(cache, pid, info) ==
    IF ~StartsWith(info.exe, "[") THEN LruPut(cache, pid, info.exe) ELSE cache

\* Mutant: the deduplicator is given the event type in place of the mask.
DedupCheckByEventType(d, pid, mask, file_path) ==
    IF d # None
    THEN LET class == IF BitAnd(mask, FAN_MODIFY) # 0 THEN FAN_MODIFY
                      ELSE IF BitAnd(mask, FAN_OPEN) # 0 THEN FAN_OPEN
                      ELSE FAN_ACCESS
             r == IsDuplicate(d[1], pid, class, file_path)
         IN [should_process |-> ~r.is_dup, dedup |-> Some(r.d)]
    ELSE [should_process |-> TRUE, dedup |-> None]

\* The deduplication check of one record: whether to process it, and the
\* Option<EventDeduplicator> afterwards.
DedupCheck(d, pid, mask, file_path) ==
    IF d # None
    THEN LET r == IsDuplicate(d[1], pid, mask, file_path)
         IN [should_process |-> ~r.is_dup, dedup |-> Some(r.d)]
    ELSE [should_process |-> TRUE, dedup |-> None]

\* A record of version 3 whose snapshot is Ok or ProcessGone: fill the cache,
\* look up the container, ask the deduplicator, hand the event to
\* handle_event unless it is a duplicate, close the fd, advance.
WalkEvent ==
    /\ InWalk
    /\ Metadata.vers = FANOTIFY_METADATA_VERSION
    /\ GetProcessInfo(Metadata).tag # "OtherError"
    /\ LET file_path == GetPathFromFd(Metadata)
           snap == GetProcessInfo(Metadata)
           proc_info == IF snap.tag = "Ok" THEN Some(snap.info) ELSE None
           cache == IF snap.tag = "Ok"
                    THEN CacheAfterSnapshot(lru, Metadata.pid, snap.info)
                    ELSE lru
           container_id == GetContainerId(Metadata)
           check == DedupCheck(dedup, Metadata.pid, Metadata.mask, file_path)
           handled == HandleEvent(Metadata, file_path, proc_info, container_id, cache)
       IN /\ dedup' = check.dedup
          /\ IF check.should_process
             THEN /\ out' = out \o [i \in 1..Len(handled.printed) |->
                                      [rec |-> handled.printed[i], src |-> CurIndex]]
                  /\ lru' = handled.cache
                  /\ fate' = [fate EXCEPT ![CurIndex] = "handled"]
             ELSE /\ out' = out
                  /\ lru' = cache
                  /\ fate' = [fate EXCEPT ![CurIndex] = "duplicate"]
    /\ CloseEventFd
    /\ NextRecord
    /\ UNCHANGED <<exitCode, running, sig, fanFd, verbose, format, headers, cleared, env, fatal, arg, ret, len, err>>
    /\ UNCHANGED <<buffer, drained>>

\* After the loop: close(fan_fd), return Ok(()); main returns, exit status 0.
Cleanup ==
    /\ pc = "cleanup"
    /\ fanFd' = "closed"
    /\ ExitWith(0)
    /\ UNCHANGED <<running, sig, verbose, format, headers, cleared, env, fatal, arg, ret, len, err>>
    /\ UNCHANGED loopVars

\* ------------------------------------------------------ the ctrlc handler
HandlerInstalled == pc \in {"loop", "read", "walk", "cleanup"}

\* SIGINT arrives: r.store(false, SeqCst); note is the history kept of it.
SigStoreAt(note) ==
    /\ HandlerInstalled
    /\ sig = "none"
    /\ running' = FALSE
    /\ sig' = "stored"
    /\ cleared' = note
    /\ UNCHANGED <<pc, exitCode, fanFd, verbose, format, headers, env, fatal, arg, ret, len, err>>
    /\ UNCHANGED loopVars

SigStore == SigStoreAt(cleared)

\* The same store, with the moment noted: the position of the main thread
\* and the number of records printed so far.
SigStoreNoted == SigStoreAt(Some([pc |-> pc, lines |-> Len(out)]))

SigExitStatus130 ==
    /\ sig = "stored"
    /\ pc # "exited"
    /\ sig' = "done"
    /\ ExitWith(130)
    /\ UNCHANGED <<running, fanFd, verbose, format, headers, cleared, env, fatal, arg, ret, len, err>>
    /\ UNCHANGED loopVars

\* ... eprintln!, std::process::exit(0)
SigExit ==
    /\ sig = "stored"
    /\ pc # "exited"
    /\ sig' = "done"
    /\ ExitWith(0)
    /\ UNCHANGED <<running, fanFd, verbose, format, headers, cleared, env, fatal, arg, ret, len, err>>
    /\ UNCHANGED loopVars

Next ==
    \/ RunMonitor
    \/ StartMonitoring
    \/ LoopCheck
    \/ ReadWouldBlock
    \/ ReadError
    \/ ReadZero
    \/ ReadBatch
    \/ WalkBadVersion
    \/ WalkOtherError
    \/ WalkEvent
    \/ Cleanup
    \/ SigStore
    \/ SigExit

Spec == Init /\ [][Next]_vars

\* The monitor started as root on an existing directory, with the moment
\* of the interrupt noted.
InitCancel == Init /\ env = GoodEnvironment

NextCancel ==
    \/ RunMonitor
    \/ StartMonitoring
    \/ LoopCheck
    \/ ReadWouldBlock
    \/ ReadError
    \/ ReadZero
    \/ ReadBatch
    \/ WalkBadVersion
    \/ WalkOtherError
    \/ WalkEvent
    \/ Cleanup
    \/ SigStoreNoted
    \/ SigExit

SpecCancel == InitCancel /\ [][NextCancel]_vars

\* The same program started with any --format argument, without
\* deduplication and with every startup check passing.
InitOutput ==
    /\ pc = "start"
    /\ exitCode = None
    /\ running = TRUE
    /\ sig = "none"
    /\ fanFd = "none"
    /\ verbose = TRUE
    /\ dedup = None
    /\ lru = <<>>
    /\ buffer = <<>>
    /\ len = 0
    /\ err = "none"
    /\ offset = 0
    /\ openFds = {}
    /\ drained = <<>>
    /\ closes = <<>>
    /\ fate = <<>>
    /\ out = <<>>
    /\ env = GoodEnvironment
    /\ fatal = None
    /\ arg = None
    /\ ret = None
    /\ format \in FormatArgs
    /\ headers = <<>>
    /\ cleared = None

SpecOutput == InitOutput /\ [][Next]_vars

\* The ctrlc handler runs on a thread of its own, which the operating system
\* schedules whatever the main thread does: once it has cleared the flag, its
\* call of exit is not postponed forever.
FairSpec == Spec /\ WF_vars(SigExit)

\* ------------------------------------------- handle_event on every mask
\* The largest mask value handle_event is applied to below (all six low bits).
MaxMask == 63

InitClassify ==
    /\ pc = "classify"
    /\ exitCode = None
    /\ running = TRUE
    /\ sig = "none"
    /\ fanFd = "open"
    /\ verbose = TRUE
    /\ dedup = None
    /\ lru = <<>>
    /\ buffer = <<>>
    /\ len = 0
    /\ err = "none"
    /\ offset = 0
    /\ openFds = {}
    /\ drained = <<>>
    /\ closes = <<>>
    /\ fate = <<>>
    /\ out = <<>>
    /\ env = GoodEnvironment
    /\ fatal = None
    /\ arg = None
    /\ ret = None
    /\ format \in FormatArgs
    /\ headers = <<>>
    /\ cleared = None

\* handle_event applied to one record of any mask, with any snapshot, in
\* either output format; ret is what it printed.
ClassifyStep ==
    /\ pc = "classify"
    /\ \E mask \in 0..MaxMask, pid \in Pids, link \in LinkResults,
          snap \in {"Ok", "ProcessGone"} :
          LET ev == [event_len |-> FAN_EVENT_METADATA_LEN,
                     vers |-> FANOTIFY_METADATA_VERSION, mask |-> mask,
                     fd |-> FAN_FD + 1, pid |-> pid, link |-> link, snap |-> snap]
              info == GetProcessInfo(ev)
              handled == HandleEvent(ev, GetPathFromFd(ev),
                                     IF info.tag = "Ok" THEN Some(info.info) ELSE None,
                                     GetContainerId(ev), lru)
          IN /\ drained' = <<ev>>
             /\ out' = [i \in 1..Len(handled.printed) |->
                          [rec |-> handled.printed[i], src |-> 1]]
             /\ arg' = format
             /\ ret' = [i \in 1..Len(handled.printed) |->
                          PrintEvent(format, handled.printed[i], GetContainerId(ev))]
    /\ pc' = "classified"
    /\ UNCHANGED <<exitCode, running, sig, fanFd, verbose, format, headers, cleared, env, fatal, dedup, lru, buffer,
                   len, err, offset, openFds, closes, fate>>

NextClassify == ClassifyStep

SpecClassify == InitClassify /\ [][NextClassify]_vars

\* ------------------------------------------- the process cache when full
\* How many steps are explored once the cache is one entry short of full.
MaxLruSteps == 3

InitLru ==
    /\ pc = "cache"
    /\ exitCode = None
    /\ running = TRUE
    /\ sig = "none"
    /\ fanFd = "open"
    /\ verbose = TRUE
    /\ dedup = None
    /\ lru = <<>>
    /\ buffer = <<>>
    /\ len = 0
    /\ err = "none"
    /\ offset = 0
    /\ openFds = {}
    /\ drained = <<>>
    /\ closes = <<>>
    /\ fate = <<>>
    /\ out = <<>>
    /\ env = GoodEnvironment
    /\ fatal = None
    /\ arg = 0
    /\ ret = None
    /\ format = "text"
    /\ headers = <<>>
    /\ cleared = None

\* The program a pid runs: the pids that filled the cache run /bin/cat, the
\* later ones /bin/sh.
ExeSh == <<"/", "b", "i", "n", "/", "s", "h">>
ExeOf(pid) == IF pid < LRU_CAPACITY THEN ExeCat ELSE ExeSh
\* A process title in brackets, "[x]", as the first cmdline argument or comm.
BracketName == <<"[", "x", "]">>

\* What get_process_info and get_process_path can answer as the exe of pid:
\* an absolute path, the "[<pid>]" sentinel, or a bare name (a cmdline
\* argument or comm that is found in no bin directory), with or without
\* brackets.
ExeAnswers(pid) == {ExeOf(pid), PidSentinel(pid), NameCat, BracketName}

\* History: the exe most recently obtained for a pid, as pairs <<pid, exe>>.
NoteExe(recorded, pid, exe) ==
    {x \in recorded : x[1] # pid} \cup {<<pid, exe>>}

\* The history before this step (ret holds it once a step was taken).
Recorded == IF offset = 0 THEN {} ELSE ret.recorded

\* The pids looked at once the cache is nearly full: one never seen before
\* (arg counts the pids seen) and the least recently used one.
LruPids == {arg + 1, lru[Len(lru)].k}

\* Events of ever new pids with a successful snapshot fill the cache.
LruFillStep ==
    /\ pc = "cache"
    /\ Len(lru) < LRU_CAPACITY - 1
    /\ lru' = CacheAfterSnapshot(lru, arg + 1, [exe |-> ExeCat])
    /\ arg' = arg + 1
    /\ UNCHANGED <<pc, exitCode, running, sig, fanFd, verbose, format, headers, cleared, env, fatal, ret, len, err>>
    /\ UNCHANGED <<dedup, buffer, offset, openFds, drained, closes, fate, out>>

\* A successful snapshot of a new or of the oldest pid, whatever exe it
\* yields; ret tells what was done and what exe came out, and keeps the
\* history of the exes that were not the sentinel.
LruSnapshotStep ==
    /\ pc = "cache"
    /\ Len(lru) >= LRU_CAPACITY - 1
    /\ offset < MaxLruSteps
    /\ \E pid \in LruPids : \E exe \in ExeAnswers(pid) :
          /\ lru' = CacheAfterSnapshot(lru, pid, [exe |-> exe])
          /\ arg' = IF pid > arg THEN pid ELSE arg
          /\ ret' = [op |-> "snapshot", pid |-> pid, fetched |-> exe, exe |-> exe,
                     recorded |-> IF exe # PidSentinel(pid)
                                  THEN NoteExe(Recorded, pid, exe)
                                  ELSE Recorded]
    /\ offset' = offset + 1
    /\ UNCHANGED <<pc, exitCode, running, sig, fanFd, verbose, format, headers, cleared, env, fatal, len, err>>
    /\ UNCHANGED <<dedup, buffer, openFds, drained, closes, fate, out>>

\* A ProcessGone snapshot: handle_event asks get_or_fetch for the path,
\* which becomes the process_path of the record; a path fetched because
\* the cache had none goes into the history unless it is the sentinel.
LruGoneStep ==
    /\ pc = "cache"
    /\ Len(lru) >= LRU_CAPACITY - 1
    /\ offset < MaxLruSteps
    /\ \E pid \in LruPids : \E fetched \in ExeAnswers(pid) :
          LET r == GetOrFetch(lru, pid, fetched)
          IN /\ lru' = r.c
             /\ arg' = IF pid > arg THEN pid ELSE arg
             /\ ret' = [op |-> "gone", pid |-> pid, fetched |-> fetched, exe |-> r.exe,
                        recorded |-> IF /\ LruFind(lru, pid) = 0
                                        /\ fetched # PidSentinel(pid)
                                     THEN NoteExe(Recorded, pid, fetched)
                                     ELSE Recorded]
    /\ offset' = offset + 1
    /\ UNCHANGED <<pc, exitCode, running, sig, fanFd, verbose, format, headers, cleared, env, fatal, len, err>>
    /\ UNCHANGED <<dedup, buffer, openFds, drained, closes, fate, out>>

NextLru ==
    \/ LruFillStep
    \/ LruSnapshotStep
    \/ LruGoneStep

SpecLru == InitLru /\ [][NextLru]_vars

\* ------------------------------------------------------- get_container_id
\* str::contains
Contains(s, sub) ==
    \E i \in 1..(Len(s) - Len(sub) + 1) : SubSeq(s, i, i + Len(sub) - 1) = sub

\* str::rfind(char): the last index of c in s, 0 for None.
RFind(s, c) ==
    LET at == {i \in DOMAIN s : s[i] = c}
    IN IF at = {} THEN 0 ELSE CHOOSE i \in at : \A j \in at : j <= i

\* char::is_whitespace, for the white space of these inputs.
IsSpace(c) == c \in {" ", "\t", "\n", "\r"}

\* str::trim
Trim(s) ==
    LET solid == {i \in DOMAIN s : ~IsSpace(s[i])}
    IN IF solid = {} THEN <<>>
       ELSE SubSeq(s, CHOOSE i \in solid : \A j \in solid : i <= j,
                      CHOOSE i \in solid : \A j \in solid : j <= i)

\* The length of the short container id.
SHORT_ID_LEN == 12

\* A character that UTF-8 encodes in two bytes; "e-acute" is that character.
EAcute == "e-acute"
\* char::len_utf8, for the characters of these inputs.
Utf8Len(c) == IF c = EAcute THEN 2 ELSE 1

RECURSIVE ByteLen(_)
\* str::len: the length in bytes.
ByteLen(s) == IF s = <<>> THEN 0 ELSE Utf8Len(s[1]) + ByteLen(Tail(s))

\* str::is_char_boundary: n bytes are a whole number of characters of s.
IsCharBoundary(s, n) == \E k \in 0..Len(s) : ByteLen(SubSeq(s, 1, k)) = n

\* &s[..n]: the characters in the first n bytes; defined at a character
\* boundary only.
BytePrefix(s, n) ==
    SubSeq(s, 1, CHOOSE k \in 0..Len(s) : ByteLen(SubSeq(s, 1, k)) = n)

\* What extract_container_id slices: the trimmed text after the last slash.
TrimmedTail(line) == Trim(SubSeq(line, RFind(line, "/") + 1, Len(line)))

\* extract_container_id panics in id[..12] when byte 12 of the tail lies
\* inside a character.
ExtractPanics(line) ==
    /\ RFind(line, "/") # 0
    /\ ByteLen(TrimmedTail(line)) >= SHORT_ID_LEN
    /\ ~IsCharBoundary(TrimmedTail(line), SHORT_ID_LEN)

\* extract_container_id where it returns: the first 12 bytes of what
\* follows the last slash, or all of it when it is shorter and not empty.
ExtractContainerId(line) ==
    LET pos == RFind(line, "/")
        id == TrimmedTail(line)
    IN IF pos = 0 THEN None
       ELSE IF ByteLen(id) >= SHORT_ID_LEN THEN Some(BytePrefix(id, SHORT_ID_LEN))
       ELSE IF id # <<>> THEN Some(id)
       ELSE None

Docker == <<"d", "o", "c", "k", "e", "r">>
Containerd == <<"c", "o", "n", "t", "a", "i", "n", "e", "r", "d">>

\* line.contains("docker") || line.contains("containerd")
NamesContainer(line) == Contains(line, Docker) \/ Contains(line, Containerd)

RECURSIVE FirstContainerId(_)
\* get_container_id, the loop over content.lines(): the id of the first line
\* that names docker or containerd and yields one.
FirstContainerId(lines) ==
    IF lines = <<>> THEN None
    ELSE LET line == lines[1]
             id == IF NamesContainer(line)
                   THEN ExtractContainerId(line) ELSE None
         IN IF id # None THEN id ELSE FirstContainerId(Tail(lines))

\* get_container_id panics when the loop reaches a line that makes
\* extract_container_id panic: no earlier line has returned an id.
ContainerIdPanics(content) ==
    /\ content # None
    /\ \E k \in DOMAIN content[1] :
          /\ NamesContainer(content[1][k])
          /\ ExtractPanics(content[1][k])
          /\ \A j \in 1..(k - 1) :
                NamesContainer(content[1][j]) =>
                    /\ ~ExtractPanics(content[1][j])
                    /\ ExtractContainerId(content[1][j]) = None

\* get_container_id on what read_to_string("/proc/<pid>/cgroup") answers:
\* Some(lines), or None when the file cannot be read.
GetContainerIdOfContent(content) ==
    IF content = None THEN None ELSE FirstContainerId(content[1])

\* Lines of /proc/<pid>/cgroup.
\* "1:/docker/0123456789abcdef" (cgroup v1, cgroupfs driver)
LineDockerLong ==
    <<"1", ":", "/", "d", "o", "c", "k", "e", "r", "/", "0", "1", "2", "3", "4", "5", "6", "7", "8", "9", "a", "b", "c", "d", "e", "f">>
\* "0::/system.slice/docker-0123456789abcdef.scope" (cgroup v2, systemd driver)
LineSystemdScope ==
    <<"0", ":", ":", "/", "s", "y", "s", "t", "e", "m", ".", "s", "l", "i", "c", "e", "/", "d", "o", "c", "k", "e", "r", "-", "0", "1", "2", "3", "4", "5", "6", "7", "8", "9", "a", "b", "c", "d", "e", "f", ".", "s", "c", "o", "p", "e">>
\* "2:/docker/abc" (a tail shorter than 12)
LineDockerShort ==
    <<"2", ":", "/", "d", "o", "c", "k", "e", "r", "/", "a", "b", "c">>
\* "3:/docker/" (nothing after the last slash)
LineDockerEmptyTail ==
    <<"3", ":", "/", "d", "o", "c", "k", "e", "r", "/">>
\* "4:cpu:/user.slice" (a host process)
LineUserSlice ==
    <<"4", ":", "c", "p", "u", ":", "/", "u", "s", "e", "r", ".", "s", "l", "i", "c", "e">>
\* "5:/containerd/fedcba9876543210" (containerd)
LineContainerd ==
    <<"5", ":", "/", "c", "o", "n", "t", "a", "i", "n", "e", "r", "d", "/", "f", "e", "d", "c", "b", "a", "9", "8", "7", "6", "5", "4", "3", "2", "1", "0">>
\* "docker" (no slash at all)
LineNoSlash ==
    <<"d", "o", "c", "k", "e", "r">>
\* "7:/docker/abc " (white space after the tail)
LineTrailingSpace ==
    <<"7", ":", "/", "d", "o", "c", "k", "e", "r", "/", "a", "b", "c", " ">>
\* "8:/docker/init.scope" (a short tail that is no id)
LineInitScope ==
    <<"8", ":", "/", "d", "o", "c", "k", "e", "r", "/", "i", "n", "i", "t", ".", "s", "c", "o", "p", "e">>
\* "0::/" (a host process, cgroup v2)
LineRoot ==
    <<"0", ":", ":", "/">>

\* "9:/docker/a" followed by six e-acute (a tail of 7 characters, 13 bytes)
LineDockerAccents ==
    <<"9", ":", "/", "d", "o", "c", "k", "e", "r", "/", "a", EAcute, EAcute, EAcute, EAcute, EAcute, EAcute>>

CgroupLines ==
    {LineDockerLong, LineSystemdScope, LineDockerShort, LineDockerEmptyTail,
     LineUserSlice, LineContainerd, LineNoSlash, LineTrailingSpace,
     LineInitScope, LineRoot, LineDockerAccents}

\* The most lines a cgroup file has here.
MaxLines == 2

RECURSIVE SeqsUpTo(_, _)
\* The sequences over S of length 0..n.
SeqsUpTo(S, n) ==
    IF n = 0 THEN {<<>>}
    ELSE LET shorter == SeqsUpTo(S, n - 1)
         IN shorter \cup {Append(q, x) : q \in shorter, x \in S}

\* An unreadable file, or a file of up to MaxLines lines.
CgroupContents == {None} \cup {Some(ls) : ls \in SeqsUpTo(CgroupLines, MaxLines)}

InitCgroup ==
    /\ pc = "cgroup"
    /\ exitCode = None
    /\ running = TRUE
    /\ sig = "none"
    /\ fanFd = "open"
    /\ verbose = TRUE
    /\ dedup = None
    /\ lru = <<>>
    /\ buffer = <<>>
    /\ len = 0
    /\ err = "none"
    /\ offset = 0
    /\ openFds = {}
    /\ drained = <<>>
    /\ closes = <<>>
    /\ fate = <<>>
    /\ out = <<>>
    /\ env = GoodEnvironment
    /\ fatal = None
    /\ arg = None
    /\ ret = None
    /\ format = "text"
    /\ headers = <<>>
    /\ cleared = None

\* get_container_id applied to one cgroup file: it returns, or it panics
\* and the call has no result.
CgroupStep ==
    /\ pc = "cgroup"
    /\ \E content \in CgroupContents :
          /\ arg' = content
          /\ IF ContainerIdPanics(content)
             THEN ret' = None /\ pc' = "cgroup_panic"
             ELSE ret' = GetContainerIdOfContent(content) /\ pc' = "cgroup_done"
    /\ UNCHANGED <<exitCode, running, sig, fanFd, verbose, format, headers, cleared, env, fatal, len, err>>
    /\ UNCHANGED loopVars

NextCgroup == CgroupStep

SpecCgroup == InitCgroup /\ [][NextCgroup]_vars

\* --------------------------------------------- is_duplicate on its own
\* How many calls of is_duplicate follow each other.
MaxCalls == 3

InitDedup ==
    /\ pc = "dedup"
    /\ exitCode = None
    /\ running = TRUE
    /\ sig = "none"
    /\ fanFd = "open"
    /\ verbose = FALSE
    /\ dedup = Some(DedupNew)
    /\ lru = <<>>
    /\ buffer = <<>>
    /\ len = 0
    /\ err = "none"
    /\ offset = 0
    /\ openFds = {}
    /\ drained = <<>>
    /\ closes = <<>>
    /\ fate = <<>>
    /\ out = <<>>
    /\ env = GoodEnvironment
    /\ fatal = None
    /\ arg = None
    /\ ret = <<>>
    /\ format = "text"
    /\ headers = <<>>
    /\ cleared = None

\* The pids a record can carry: the kernel reports 0 for a process that
\* has no pid in the pid namespace of the monitor.
EventPids == Pids \cup {0}

\* One call of is_duplicate on a fresh or used deduplicator; ret is the
\* history of the calls: the arguments and the answer of each.
DedupStep ==
    /\ pc = "dedup"
    /\ Len(ret) < MaxCalls
    /\ \E pid \in EventPids, mask \in Masks, path \in {PathA, Unknown} :
          LET r == IsDuplicate(dedup[1], pid, mask, path)
          IN /\ dedup' = Some(r.d)
             /\ ret' = Append(ret, [pid |-> pid, mask |-> mask, path |-> path,
                                    is_dup |-> r.is_dup])
    /\ UNCHANGED <<pc, exitCode, running, sig, fanFd, verbose, format, headers, cleared, env, fatal, arg, len, err>>
    /\ UNCHANGED <<lru, buffer, offset, openFds, drained, closes, fate, out>>

NextDedup == DedupStep

SpecDedup == InitDedup /\ [][NextDedup]_vars

\* ------------------------------------------------------- get_process_info
\* The io::Error of a failed read: its ErrorKind and its raw OS error.
ESRCH == 3
ErrNotFound == [kind |-> "NotFound", raw |-> Some(2)]
ErrNoSuchProcess == [kind |-> "Uncategorized", raw |-> Some(ESRCH)]
ErrPermissionDenied == [kind |-> "PermissionDenied", raw |-> Some(13)]
ErrInvalidData == [kind |-> "InvalidData", raw |-> None]
IoErrors == {ErrNotFound, ErrNoSuchProcess, ErrPermissionDenied, ErrInvalidData}

\* Mutant: only a missing file counts as a vanished process.
MapStatusErrorNotFoundOnly(e) ==
    IF e.kind = "NotFound" THEN "ProcessGone" ELSE "OtherError"

\* get_process_info, the map_err of the status read: NotFound or the raw OS
\* error 3 is ProcessGone, everything else a System error.
MapStatusError(e) ==
    IF e.kind = "NotFound" THEN "ProcessGone"
    ELSE IF e.raw = Some(ESRCH) THEN "ProcessGone"
    ELSE "OtherError"

\* str::starts_with(&str)
HasPrefix(s, prefix) ==
    Len(s) >= Len(prefix) /\ SubSeq(s, 1, Len(prefix)) = prefix

RECURSIVE SplitWhitespace(_)
\* str::split_whitespace: the maximal runs of non-white-space characters.
SplitWhitespace(s) ==
    IF s = <<>> THEN <<>>
    ELSE IF IsSpace(s[1]) THEN SplitWhitespace(Tail(s))
    ELSE LET spaces == {i \in DOMAIN s : IsSpace(s[i])}
             stop == IF spaces = {} THEN Len(s) + 1
                     ELSE CHOOSE i \in spaces : \A j \in spaces : i <= j
         IN <<SubSeq(s, 1, stop - 1)>> \o SplitWhitespace(SubSeq(s, stop, Len(s)))

IsDigit(c) == \E d \in 0..9 : DigitChar(d) = c
DigitValue(c) == CHOOSE d \in 0..9 : DigitChar(d) = c

RECURSIVE DecimalValue(_)
DecimalValue(s) ==
    IF s = <<>> THEN 0
    ELSE 10 * DecimalValue(SubSeq(s, 1, Len(s) - 1)) + DigitValue(s[Len(s)])

\* str::parse::<u32>().ok() and parse::<i32>().ok() on a token: the number
\* for a non-empty string of digits, None otherwise.  The tokens parsed here
\* are far below the limits of both types and carry no sign.
ParseNumber(tok) ==
    IF tok # <<>> /\ \A i \in DOMAIN tok : IsDigit(tok[i])
    THEN Some(DecimalValue(tok)) ELSE None

\* Option::unwrap_or
UnwrapOr(opt, default) == IF opt = None THEN default ELSE opt[1]

FieldUid == <<"U", "i", "d", ":">>
FieldGid == <<"G", "i", "d", ":">>
FieldNSpid == <<"N", "S", "p", "i", "d", ":">>
FieldName == <<"N", "a", "m", "e", ":">>
CommUnknown == Unknown

\* What get_process_info knows before it scans the status text.
StatusStart == [uid |-> 0, gid |-> 0, container_pid |-> None, comm |-> CommUnknown]

\* .nth(1).and_then(|s| s.parse().ok()).unwrap_or(0)
SecondTokenNumber(line) ==
    LET tokens == SplitWhitespace(line)
    IN IF Len(tokens) >= 2 THEN UnwrapOr(ParseNumber(tokens[2]), 0) ELSE 0

\* Mutant: the pid right after the host pid is taken, not the last one.
ScanLineSecondNSpid(acc, line) ==
    IF HasPrefix(line, FieldUid) THEN [acc EXCEPT !.uid = SecondTokenNumber(line)]
    ELSE IF HasPrefix(line, FieldGid) THEN [acc EXCEPT !.gid = SecondTokenNumber(line)]
    ELSE IF HasPrefix(line, FieldNSpid)
         THEN LET pids == Tail(SplitWhitespace(line))
              IN IF Len(pids) >= 2
                 THEN [acc EXCEPT !.container_pid = ParseNumber(pids[2])]
                 ELSE acc
    ELSE IF HasPrefix(line, FieldName)
         THEN LET tokens == SplitWhitespace(line)
              IN IF Len(tokens) >= 2 THEN [acc EXCEPT !.comm = tokens[2]] ELSE acc
    ELSE acc

\* The body of the loop over status_content.lines().
ScanLine(acc, line) ==
    IF HasPrefix(line, FieldUid) THEN [acc EXCEPT !.uid = SecondTokenNumber(line)]
    ELSE IF HasPrefix(line, FieldGid) THEN [acc EXCEPT !.gid = SecondTokenNumber(line)]
    ELSE IF HasPrefix(line, FieldNSpid)
         THEN LET pids == Tail(SplitWhitespace(line))
              IN IF Len(pids) >= 2
                 THEN [acc EXCEPT !.container_pid = ParseNumber(pids[Len(pids)])]
                 ELSE acc
    ELSE IF HasPrefix(line, FieldName)
         THEN LET tokens == SplitWhitespace(line)
              IN IF Len(tokens) >= 2 THEN [acc EXCEPT !.comm = tokens[2]] ELSE acc
    ELSE acc

RECURSIVE ScanStatus(_, _)
\* for line in status_content.lines()
ScanStatus(acc, lines) ==
    IF lines = <<>> THEN acc
    ELSE ScanStatus(ScanLine(acc, lines[1]), Tail(lines))

DeletedMarker == <<" ", "(", "d", "e", "l", "e", "t", "e", "d", ")">>

RECURSIVE TrimEndMatches(_, _)
\* str::trim_end_matches: the suffix is removed as often as it ends the string.
TrimEndMatches(s, suffix) ==
    IF Len(s) >= Len(suffix) /\ SubSeq(s, Len(s) - Len(suffix) + 1, Len(s)) = suffix
    THEN TrimEndMatches(SubSeq(s, 1, Len(s) - Len(suffix)), suffix)
    ELSE s

\* content.split('\0').next(): what precedes the first NUL; "NUL" is the
\* NUL character.
FirstNulField(content) ==
    LET nuls == {i \in DOMAIN content : content[i] = "NUL"}
    IN IF nuls = {} THEN content
       ELSE SubSeq(content, 1, (CHOOSE i \in nuls : \A j \in nuls : i <= j) - 1)

UsrBinPrefix == <<"/", "u", "s", "r", "/", "b", "i", "n", "/">>
BinPrefix == <<"/", "b", "i", "n", "/">>

\* Mutant: /bin/ is tried before /usr/bin/.
ProcessPathBinFirst(pid, p) ==
    IF p.exe # None THEN TrimEndMatches(p.exe[1], DeletedMarker)
    ELSE LET cmd == IF p.cmdline = None THEN <<>> ELSE FirstNulField(p.cmdline[1])
             name == IF p.comm = None THEN <<>> ELSE Trim(p.comm[1])
         IN IF cmd # <<>>
            THEN IF StartsWith(cmd, "/") THEN cmd
                 ELSE IF (BinPrefix \o cmd) \in p.exists THEN BinPrefix \o cmd
                 ELSE IF (UsrBinPrefix \o cmd) \in p.exists THEN UsrBinPrefix \o cmd
                 ELSE cmd
            ELSE IF name # <<>> THEN name
            ELSE PidSentinel(pid)

\* get_process_path on the answers p of /proc/<pid>: the exe link without
\* its " (deleted)" marker; else the first cmdline argument, as it is when
\* absolute or not found, under /usr/bin/ or /bin/ when it exists there;
\* else the trimmed comm; else "[<pid>]".
ProcessPath(pid, p) ==
    IF p.exe # None THEN TrimEndMatches(p.exe[1], DeletedMarker)
    ELSE LET cmd == IF p.cmdline = None THEN <<>> ELSE FirstNulField(p.cmdline[1])
             name == IF p.comm = None THEN <<>> ELSE Trim(p.comm[1])
         IN IF cmd # <<>>
            THEN IF StartsWith(cmd, "/") THEN cmd
                 ELSE IF (UsrBinPrefix \o cmd) \in p.exists THEN UsrBinPrefix \o cmd
                 ELSE IF (BinPrefix \o cmd) \in p.exists THEN BinPrefix \o cmd
                 ELSE cmd
            ELSE IF name # <<>> THEN name
            ELSE PidSentinel(pid)

\* str::contains(char)
ContainsChar(s, c) == \E i \in DOMAIN s : s[i] = c

\* BinPathCache::resolve on a map given as a set of [name, path] entries.
Resolve(bin_cache, name) ==
    IF \E e \in bin_cache : e.name = name
    THEN Some((CHOOSE e \in bin_cache : e.name = name).path)
    ELSE None

\* get_process_info, the exe after get_process_path: a string without "/"
\* is looked up in the bin cache; one with "/" that starts with "[" makes
\* the Name of the status text be looked up; anything else is kept.
ResolveExe(exe, comm, bin_cache) ==
    IF ~ContainsChar(exe, "/") THEN UnwrapOr(Resolve(bin_cache, exe), exe)
    ELSE IF StartsWith(exe, "[") /\ comm # CommUnknown
         THEN UnwrapOr(Resolve(bin_cache, comm), comm)
    ELSE exe

\* process::get_process_info(pid, bin_cache) on the answers p of /proc/<pid>.
SnapshotOf(pid, p, bin_cache) ==
    IF p.status.err # None
    THEN [tag |-> MapStatusError(p.status.err[1]), info |-> None]
    ELSE LET scan == ScanStatus(StatusStart, p.status.lines)
             exe == ResolveExe(ProcessPath(pid, p), scan.comm, bin_cache)
         IN [tag |-> "Ok",
             info |-> Some([pid |-> pid, uid |-> scan.uid, gid |-> scan.gid,
                            comm |-> scan.comm, exe |-> exe,
                            container_pid |-> scan.container_pid])]

\* The answers of /proc/<pid> get_process_info is applied to.  The status
\* text is written out from its values: the real and effective ids, the
\* pids of the NSpid line (none: no such line), the Name, and the white
\* space that separates the field name and the values.
Separators == {<<"\t">>, <<" ">>, <<" ", "\t", " ", " ">>}
IdPairs == {<<1000, 1000>>, <<33, 34>>}
NSpids == {<<>>, <<7>>, <<7, 1>>, <<7, 5, 2>>}
UsrBinCat == <<"/", "u", "s", "r", "/", "b", "i", "n", "/", "c", "a", "t">>
ExeCatDeleted == ExeCat \o DeletedMarker
\* The arguments of the process, None when cmdline cannot be read.
Cmdlines ==
    {None, Some(<<>>), Some(<<<<"/", "b", "i", "n", "/", "s", "h">>, <<"-", "c">>>>),
     Some(<<NameCat, <<"a">>>>), Some(<<<<".", "/", "r", "u", "n">>>>),
     Some(<<<<"n", "o", "p", "e">>>>)}
\* The content of comm, None when it cannot be read.
Comms == {None, Some(NameCat \o <<"\n">>), Some(<<"\n">>)}
BinCaches == {{}, {[name |-> NameCat, path |-> UsrBinCat]}}

RECURSIVE JoinTokens(_, _)
JoinTokens(numbers, sep) ==
    IF numbers = <<>> THEN <<>>
    ELSE sep \o FormatInt(numbers[1]) \o JoinTokens(Tail(numbers), sep)

\* The lines of /proc/<pid>/status for these values; the effective id,
\* which follows the real one, differs from it.
StatusText(a) ==
    (IF a.name = None THEN <<>> ELSE <<FieldName \o a.ws \o a.name[1]>>)
    \o <<FieldUid \o JoinTokens(<<a.ids[1], a.ids[1] + 1>>, a.ws)>>
    \o <<FieldGid \o JoinTokens(<<a.ids[2], a.ids[2] + 1>>, a.ws)>>
    \o (IF a.nspid = <<>> THEN <<>> ELSE <<FieldNSpid \o JoinTokens(a.nspid, a.ws)>>)

RECURSIVE CmdlineText(_)
\* The content of /proc/<pid>/cmdline: the arguments, each ended by a NUL.
CmdlineText(args) ==
    IF args = <<>> THEN <<>>
    ELSE args[1] \o <<"NUL">> \o CmdlineText(Tail(args))

\* What the reads under /proc/<pid> answer for the input a.
ProcOf(a) ==
    [status |-> [err |-> a.statusErr,
                 lines |-> IF a.statusErr = None THEN StatusText(a) ELSE <<>>],
     exe |-> a.exe,
     cmdline |-> IF a.cmdline = None THEN None ELSE Some(CmdlineText(a.cmdline[1])),
     comm |-> a.comm,
     exists |-> a.exists]

AllSnapshotInputs ==
    [pid : Pids, statusErr : {None} \cup {Some(e) : e \in IoErrors},
     ws : Separators, ids : IdPairs, nspid : NSpids, name : {None, Some(NameCat)},
     exe : {None, Some(ExeCat), Some(ExeCatDeleted)}, cmdline : Cmdlines,
     comm : Comms, exists : SUBSET {UsrBinCat, ExeCat}, bin_cache : BinCaches]

\* When the status read fails nothing else is read, so the other answers
\* are fixed then.
SnapshotInputs ==
    {a \in AllSnapshotInputs :
        a.statusErr # None =>
            /\ a.ws = <<"\t">> /\ a.ids = <<1000, 1000>> /\ a.nspid = <<>>
            /\ a.name = None /\ a.exe = None /\ a.cmdline = None
            /\ a.comm = None /\ a.exists = {} /\ a.bin_cache = {}}

InitSnapshot ==
    /\ pc = "snapshot"
    /\ exitCode = None
    /\ running = TRUE
    /\ sig = "none"
    /\ fanFd = "open"
    /\ verbose = TRUE
    /\ dedup = None
    /\ lru = <<>>
    /\ buffer = <<>>
    /\ len = 0
    /\ err = "none"
    /\ offset = 0
    /\ openFds = {}
    /\ drained = <<>>
    /\ closes = <<>>
    /\ fate = <<>>
    /\ out = <<>>
    /\ env = GoodEnvironment
    /\ fatal = None
    /\ arg = None
    /\ ret = None
    /\ format = "text"
    /\ headers = <<>>
    /\ cleared = None

\* get_process_info applied to one pid.
SnapshotStep ==
    /\ pc = "snapshot"
    /\ \E a \in SnapshotInputs :
          /\ arg' = a
          /\ ret' = SnapshotOf(a.pid, ProcOf(a), a.bin_cache)
    /\ pc' = "snapshot_done"
    /\ UNCHANGED <<exitCode, running, sig, fanFd, verbose, format, headers, cleared, env, fatal, len, err>>
    /\ UNCHANGED loopVars

NextSnapshot == SnapshotStep

SpecSnapshot == InitSnapshot /\ [][NextSnapshot]_vars

\* ------------------------------------------------ the exe link, alone
MaxPieces == 4

\* What can follow /bin/cat in the target of an exe link: the marker the
\* kernel appends to the target of an unlinked file (which can also be part
\* of a file or directory name), a further path component, and the marker
\* without its blank.
LinkPieces == {DeletedMarker, <<"/", "d">>, Tail(DeletedMarker)}

RECURSIVE Concat(_)
Concat(pieces) ==
    IF pieces = <<>> THEN <<>> ELSE pieces[1] \o Concat(Tail(pieces))

ExeLinks == {ExeCat \o Concat(q) : q \in SeqsUpTo(LinkPieces, MaxPieces)}

\* The answers of /proc/<pid> when the exe link resolves to link.
ProcOfLink(link) ==
    [exe |-> Some(link), cmdline |-> None, comm |-> None, exists |-> {}]

InitExeLink ==
    /\ pc = "exelink"
    /\ exitCode = None
    /\ running = TRUE
    /\ sig = "none"
    /\ fanFd = "open"
    /\ verbose = TRUE
    /\ dedup = None
    /\ lru = <<>>
    /\ buffer = <<>>
    /\ len = 0
    /\ err = "none"
    /\ offset = 0
    /\ openFds = {}
    /\ drained = <<>>
    /\ closes = <<>>
    /\ fate = <<>>
    /\ out = <<>>
    /\ env = GoodEnvironment
    /\ fatal = None
    /\ arg = None
    /\ ret = None
    /\ format = "text"
    /\ headers = <<>>
    /\ cleared = None

\* get_process_path applied to one pid whose exe link resolves.
ExeLinkStep ==
    /\ pc = "exelink"
    /\ \E pid \in Pids, link \in ExeLinks :
          /\ arg' = [pid |-> pid, link |-> link]
          /\ ret' = ProcessPath(pid, ProcOfLink(link))
    /\ pc' = "exelink_done"
    /\ UNCHANGED <<exitCode, running, sig, fanFd, verbose, format, headers, cleared, env, fatal, len, err>>
    /\ UNCHANGED loopVars

NextExeLink == ExeLinkStep

SpecExeLink == InitExeLink /\ [][NextExeLink]_vars

\* ------------------------------------------------------- BinPathCache
MaxResolves == 2
MaxFsChanges == 1

DirUsrBin == <<"/", "u", "s", "r", "/", "b", "i", "n">>
DirBin == <<"/", "b", "i", "n">>
DirUsrSbin == <<"/", "u", "s", "r", "/", "s", "b", "i", "n">>
DirSbin == <<"/", "s", "b", "i", "n">>
DirUsrLocalBin == <<"/", "u", "s", "r", "/", "l", "o", "c", "a", "l", "/", "b", "i", "n">>
DirUsrLocalSbin == <<"/", "u", "s", "r", "/", "l", "o", "c", "a", "l", "/", "s", "b", "i", "n">>
DirOptBin == <<"/", "o", "p", "t", "/", "b", "i", "n">>
DirHomeBin == <<"/", "h", "o", "m", "e", "/", "b", "i", "n">>
NameSh == <<"s", "h">>
BinNames == {NameCat, NameSh}

\* The directories BinPathCache::new always scans, in their order.
FixedDirs ==
    <<DirUsrBin, DirBin, DirUsrSbin, DirSbin, DirUsrLocalBin, DirUsrLocalSbin>>

RECURSIVE SplitOn(_, _)
\* str::split(char): the fields between the separators, empty ones included.
SplitOn(s, c) ==
    LET at == {i \in DOMAIN s : s[i] = c}
    IN IF at = {} THEN <<s>>
       ELSE LET first == CHOOSE i \in at : \A j \in at : i <= j
            IN <<SubSeq(s, 1, first - 1)>> \o SplitOn(SubSeq(s, first + 1, Len(s)), c)

RECURSIVE AppendPathDirs(_, _)
\* The loop over the entries of PATH: an entry that is not empty and not
\* yet listed is pushed.
AppendPathDirs(dirs, entries) ==
    IF entries = <<>> THEN dirs
    ELSE LET p == entries[1]
             listed == \E i \in DOMAIN dirs : dirs[i] = p
         IN AppendPathDirs(IF p # <<>> /\ ~listed THEN Append(dirs, p) ELSE dirs,
                           Tail(entries))

\* The directories to scan: the fixed ones, then those of PATH (path_env is
\* None when the variable is not set or not valid).
ScanDirs(path_env) ==
    IF path_env = None THEN FixedDirs
    ELSE AppendPathDirs(FixedDirs, SplitOn(path_env[1], ":"))

\* fs::read_dir(dir) on the file system fs: Some(names), or None when the
\* directory does not exist or cannot be read.
ReadDir(fs, dir) == IF dir \in DOMAIN fs THEN fs[dir] ELSE None

\* entry.path(): the directory joined with the file name.
PathJoin(dir, name) ==
    IF dir # <<>> /\ dir[Len(dir)] = "/" THEN dir \o name ELSE dir \o <<"/">> \o name

\* Mutant: a later directory replaces the entry of an earlier one.
ScanDirReplaces(map, dir, names) ==
    {e \in map : e.name \notin names}
        \cup {[name |-> n, path |-> PathJoin(dir, n)] : n \in names}

\* The loop over the entries of one directory:
\* map.entry(name).or_insert_with(path) keeps an entry that is present.
ScanDir(map, dir, names) ==
    map \cup {[name |-> n, path |-> PathJoin(dir, n)] :
                 n \in {x \in names : ~\E e \in map : e.name = x}}

RECURSIVE ScanAll(_, _, _)
\* The loop over the directories; one that cannot be read is passed over.
ScanAll(map, dirs, fs) ==
    IF dirs = <<>> THEN map
    ELSE LET entries == ReadDir(fs, dirs[1])
         IN ScanAll(IF entries = None THEN map ELSE ScanDir(map, dirs[1], entries[1]),
                    Tail(dirs), fs)

\* BinPathCache::new: the map built from PATH and the file system.
BinPathCacheNew(path_env, fs) == ScanAll({}, ScanDirs(path_env), fs)

\* The values of PATH: not set, empty, one directory, two directories, and
\* a list with an empty entry, a fixed directory and a repeated one.
PathEnvs ==
    {None, Some(<<>>), Some(DirOptBin),
     Some(DirHomeBin \o <<":">> \o DirOptBin),
     Some(DirOptBin \o <<":", ":">> \o DirBin \o <<":">> \o DirHomeBin
              \o <<":">> \o DirOptBin)}

\* The file systems: what read_dir answers for the directories that hold
\* programs here; the other directories do not exist.
DirContents == {None, Some({}), Some({NameCat}), Some({NameCat, NameSh})}
FileSystems ==
    {fs \in [{DirUsrBin, DirBin, DirOptBin, DirHomeBin} -> DirContents] :
        fs[DirHomeBin] \in {Some({}), Some({NameCat})}}

InitBinCache ==
    /\ pc = "bincache"
    /\ exitCode = None
    /\ running = TRUE
    /\ sig = "none"
    /\ fanFd = "open"
    /\ verbose = TRUE
    /\ dedup = None
    /\ lru = <<>>
    /\ buffer = <<>>
    /\ len = 0
    /\ err = "none"
    /\ offset = 0
    /\ openFds = {}
    /\ drained = <<>>
    /\ closes = <<>>
    /\ fate = <<>>
    /\ out = <<>>
    /\ env = GoodEnvironment
    /\ fatal = None
    /\ \E p \in PathEnvs, fs \in FileSystems :
          arg = [path_env |-> p, fs |-> fs, now |-> fs, changes |-> 0]
    /\ ret = None
    /\ format = "text"
    /\ headers = <<>>
    /\ cleared = None

\* BinPathCache::new(); ret holds the map and the answers of the calls of
\* resolve made so far.
BinCacheNewStep ==
    /\ pc = "bincache"
    /\ ret' = [map |-> BinPathCacheNew(arg.path_env, arg.fs), answers |-> <<>>]
    /\ pc' = "bincache_ready"
    /\ UNCHANGED <<exitCode, running, sig, fanFd, verbose, format, headers, cleared, env, fatal, len, err, arg>>
    /\ UNCHANGED loopVars

\* BinPathCache::resolve(name)
BinCacheResolveStep ==
    /\ pc = "bincache_ready"
    /\ Len(ret.answers) < MaxResolves
    /\ \E n \in BinNames :
          ret' = [ret EXCEPT !.answers =
                      Append(@, [name |-> n, value |-> Resolve(ret.map, n)])]
    /\ UNCHANGED <<pc, exitCode, running, sig, fanFd, verbose, format, headers, cleared, env, fatal, len, err, arg>>
    /\ UNCHANGED loopVars

\* The environment: after the cache was built a program is installed in or
\* removed from a directory (arg.now is the file system as it is now).
FsChangeStep ==
    /\ pc = "bincache_ready"
    /\ arg.changes < MaxFsChanges
    /\ \E d \in DOMAIN arg.now, n \in BinNames :
          LET names == IF arg.now[d] = None THEN {} ELSE arg.now[d][1]
              toggled == IF n \in names THEN names \ {n} ELSE names \cup {n}
          IN arg' = [arg EXCEPT !.now[d] = Some(toggled), !.changes = @ + 1]
    /\ UNCHANGED <<pc, exitCode, running, sig, fanFd, verbose, format, headers, cleared, env, fatal, len, err, ret>>
    /\ UNCHANGED loopVars

NextBinCache ==
    \/ BinCacheNewStep
    \/ BinCacheResolveStep
    \/ FsChangeStep

SpecBinCache == InitBinCache /\ [][NextBinCache]_vars

\* ------------------------------------------- the walk of one batch, alone
MaxWalkBatch == 2

\* The event_len of a record: none, that of one record, that of two.
EventLens == {0, FAN_EVENT_METADATA_LEN, 2 * FAN_EVENT_METADATA_LEN}

\* The masks of the records: a read, a write, and a write reported together
\* with the open and the read.
WalkMasks == {FAN_ACCESS, FAN_MODIFY, FAN_OPEN + FAN_ACCESS + FAN_MODIFY}

\* The contents of a record in the buffer; a record of another version is
\* not looked at beyond its version, and one whose snapshot fails with
\* another error not beyond its pid and fd.
WalkInputs ==
    [event_len : EventLens, vers : {FANOTIFY_METADATA_VERSION}, pid : Pids,
     mask : WalkMasks, snap : {"Ok", "ProcessGone"}]
    \cup [event_len : EventLens, vers : {FANOTIFY_METADATA_VERSION}, pid : Pids,
          mask : {FAN_ACCESS}, snap : {"OtherError"}]
    \cup [event_len : EventLens, vers : Versions \ {FANOTIFY_METADATA_VERSION},
          pid : {7}, mask : {FAN_ACCESS}, snap : {"Ok"}]

\* The deduplicator when a batch arrives: new, or holding the triple of
\* the last record of an earlier batch.
WalkDedups ==
    {DedupNew} \cup [last_pid : Pids, last_mask : WalkMasks, last_path : {PathA}]

\* The buffer after a read that returned n records' worth of bytes.
WalkBatch(inputs) ==
    [i \in DOMAIN inputs |->
        [event_len |-> inputs[i].event_len, vers |-> inputs[i].vers,
         mask |-> inputs[i].mask, fd |-> FAN_FD + i, pid |-> inputs[i].pid,
         link |-> Some(PathA), snap |-> inputs[i].snap]]

\* The walk starts on a batch just read; the deduplicator is enabled, and
\* arg keeps the state it had.  The histories of the records are not kept
\* here.
InitWalk ==
    /\ pc = "walk"
    /\ exitCode = None
    /\ running = TRUE
    /\ sig = "none"
    /\ fanFd = "open"
    /\ verbose = TRUE
    /\ dedup \in {Some(d) : d \in WalkDedups}
    /\ lru = <<>>
    /\ \E n \in 1..MaxWalkBatch :
          /\ buffer \in {WalkBatch(inputs) : inputs \in [1..n -> WalkInputs]}
          /\ len = n * FAN_EVENT_METADATA_LEN
          /\ openFds = {FAN_FD + i : i \in 1..n}
    /\ err = "none"
    /\ offset = 0
    /\ drained = <<>>
    /\ closes = <<>>
    /\ fate = <<>>
    /\ out = <<>>
    /\ env = GoodEnvironment
    /\ fatal = None
    /\ arg = dedup
    /\ ret = None
    /\ format = "text"
    /\ headers = <<>>
    /\ cleared = None

\* metadata.vers != 3: log and break out of the walk.
WalkRecordBadVersion ==
    /\ InWalk
    /\ Metadata.vers # FANOTIFY_METADATA_VERSION
    /\ pc' = "loop"
    /\ UNCHANGED <<exitCode, running, sig, fanFd, verbose, format, headers, cleared, env, fatal, arg, ret, len, err>>
    /\ UNCHANGED loopVars

\* get_process_info fails with another error: log, close the fd, advance
\* by event_len, continue.
WalkRecordOtherError ==
    /\ InWalk
    /\ Metadata.vers = FANOTIFY_METADATA_VERSION
    /\ GetProcessInfo(Metadata).tag = "OtherError"
    /\ openFds' = openFds \ {Metadata.fd}
    /\ NextRecord
    /\ UNCHANGED <<exitCode, running, sig, fanFd, verbose, format, headers, cleared, env, fatal, arg, ret, len, err>>
    /\ UNCHANGED <<dedup, lru, buffer, drained, closes, fate, out>>

\* A record whose snapshot is Ok or ProcessGone: cache, deduplicator,
\* handle_event, close the fd, advance by event_len.
WalkRecordEvent ==
    /\ InWalk
    /\ Metadata.vers = FANOTIFY_METADATA_VERSION
    /\ GetProcessInfo(Metadata).tag # "OtherError"
    /\ LET file_path == GetPathFromFd(Metadata)
           snap == GetProcessInfo(Metadata)
           proc_info == IF snap.tag = "Ok" THEN Some(snap.info) ELSE None
           cache == IF snap.tag = "Ok"
                    THEN CacheAfterSnapshot(lru, Metadata.pid, snap.info)
                    ELSE lru
           container_id == GetContainerId(Metadata)
           check == DedupCheck(dedup, Metadata.pid, Metadata.mask, file_path)
           handled == HandleEvent(Metadata, file_path, proc_info, container_id, cache)
       IN /\ dedup' = check.dedup
          /\ IF check.should_process
             THEN /\ out' = out \o [i \in 1..Len(handled.printed) |->
                                      [rec |-> handled.printed[i],
                                       src |-> (offset \div FAN_EVENT_METADATA_LEN) + 1]]
                  /\ lru' = handled.cache
             ELSE /\ out' = out
                  /\ lru' = cache
    /\ openFds' = openFds \ {Metadata.fd}
    /\ NextRecord
    /\ UNCHANGED <<exitCode, running, sig, fanFd, verbose, format, headers, cleared, env, fatal, arg, ret, len, err>>
    /\ UNCHANGED <<buffer, drained, closes, fate>>

NextWalk ==
    \/ WalkRecordBadVersion
    \/ WalkRecordOtherError
    \/ WalkRecordEvent

\* The walk is a loop of the monitor's only thread: it keeps running while
\* it can.
SpecWalk == InitWalk /\ [][NextWalk]_vars /\ WF_vars(NextWalk)

\* ================================================================ claims
\* Helpers over the histories.
HasRecord(i) == \E j \in DOMAIN out : out[j].src = i
RecordsOf(i) == {j \in DOMAIN out : out[j].src = i}
Triple(ev) == <<ev.pid, ev.mask, GetPathFromFd(ev)>>
\* The walk called is_duplicate / handle_event for drained[i].
Inspected(i) == fate[i] \in {"handled", "duplicate"}
\* The main thread is between two batches.
BetweenBatches == pc \in {"loop", "read", "cleanup"}
\* The last inspected record before drained[i], 0 when there is none.
PrevInspected(i) ==
    LET before == {k \in 1..(i - 1) : Inspected(k)}
    IN IF before = {} THEN 0 ELSE CHOOSE k \in before : \A m \in before : m <= k
\* drained[i] was left behind by a break of the walk at an earlier record of
\* its batch.
SkippedByBreak(i) ==
    /\ fate[i] = "queued"
    /\ \E k \in 1..(i - 1) :
          /\ fate[k] = "badversion"
          /\ \A m \in (k + 1)..i : fate[m] = "queued"

\* C1 (as claimed): when the next outer read is about to be made, the fd of
\* every record delivered so far, whatever its version, its place in the
\* batch or its snapshot, has been closed exactly once.
C1_EveryFdClosedOnceBeforeNextRead ==
    pc = "read" => \A i \in DOMAIN drained : closes[i] = 1

\* C2 (as claimed): the emitted records are an order-preserving subsequence
\* of the drained records, and at the end of a batch the only drained records
\* without an emitted record are those the deduplicator reported as
\* duplicates.
C2_OnlyDuplicatesMissing ==
    /\ \A j, k \in DOMAIN out : j < k => out[j].src < out[k].src
    /\ BetweenBatches =>
          \A i \in DOMAIN drained : ~HasRecord(i) => fate[i] = "duplicate"

\* C2 (amended): the emitted records are an order-preserving subsequence of
\* the drained records, each record carrying the pid and path of its source;
\* at the end of a batch a drained record has no emitted record exactly when
\* the deduplicator reported it as a duplicate, its snapshot failed with
\* OtherError, its version was not 3, or it followed such a record in its
\* batch.
C2_SubsequenceUpToSkips ==
    /\ \A j, k \in DOMAIN out : j < k => out[j].src < out[k].src
    /\ \A j \in DOMAIN out :
          /\ out[j].src \in DOMAIN drained
          /\ out[j].rec.pid = drained[out[j].src].pid
          /\ out[j].rec.file_path = GetPathFromFd(drained[out[j].src])
    /\ BetweenBatches =>
          \A i \in DOMAIN drained :
              ~HasRecord(i) <=>
                  \/ fate[i] = "duplicate"
                  \/ drained[i].vers = FANOTIFY_METADATA_VERSION
                        /\ drained[i].snap = "OtherError" /\ closes[i] = 1
                  \/ drained[i].vers # FANOTIFY_METADATA_VERSION /\ fate[i] = "badversion"
                  \/ SkippedByBreak(i)

\* C2 witness: a batch is over in which one record was emitted, after one
\* whose snapshot failed with OtherError.
C2_Witness ==
    /\ BetweenBatches
    /\ Len(drained) = 2
    /\ drained[1].snap = "OtherError"
    /\ ~HasRecord(1)
    /\ HasRecord(2)

\* C3: no drained record has more than one emitted record.
C3_AtMostOneRecordPerEvent ==
    \A i \in DOMAIN drained : Cardinality(RecordsOf(i)) <= 1

\* C3 witness: a record whose mask carries OPEN, ACCESS and MODIFY together
\* was emitted.
C3_Witness ==
    \E j \in DOMAIN out :
        /\ drained[out[j].src].mask = FAN_OPEN + FAN_ACCESS + FAN_MODIFY
        /\ closes[out[j].src] = 1

\* The first record of a maximal run of equal triples in the drained history.
RunStart(i) == i = 1 \/ Triple(drained[i - 1]) # Triple(drained[i])

\* C4 (as claimed): with deduplication enabled, when the batches read so far
\* are over, every maximal run of consecutive drained records with the same
\* (pid, mask, path) has exactly one emitted record, that of its first
\* record.
C4_OneRecordPerDrainedRun ==
    (~verbose /\ BetweenBatches) =>
        \A i \in DOMAIN drained :
            /\ Cardinality(RecordsOf(i)) <= 1
            /\ HasRecord(i) <=> RunStart(i)

\* C4 (amended): with deduplication enabled, among the records the walk
\* inspects (version 3, snapshot not OtherError, not behind a break), every
\* maximal run of consecutive inspected records with the same (pid, mask,
\* path) has exactly one emitted record, that of its first record; a record
\* whose triple differs from the preceding inspected one is never suppressed.
C4_OneRecordPerInspectedRun ==
    ~verbose =>
        \A i \in DOMAIN drained :
            /\ Cardinality(RecordsOf(i)) <= 1
            /\ (closes[i] = 1 /\ drained[i].snap # "OtherError") =>
                  (HasRecord(i) <=>
                      \/ PrevInspected(i) = 0
                      \/ Triple(drained[PrevInspected(i)]) # Triple(drained[i]))

\* C4 witness: a run of two equal triples spanning two batches was collapsed
\* into the record of its first event.
C4_Witness ==
    /\ ~verbose
    /\ BetweenBatches
    /\ Len(drained) = 2
    /\ Len(buffer) = 1
    /\ Triple(drained[1]) = Triple(drained[2])
    /\ HasRecord(1)
    /\ fate[2] = "duplicate"
    /\ ~HasRecord(2)

\* C5 (as claimed): with deduplication disabled there is no deduplicator and,
\* when the batches read so far are over, every drained record has an emitted
\* record.
C5_EveryDrainedEventEmitted ==
    verbose =>
        /\ dedup = None
        /\ BetweenBatches => \A i \in DOMAIN drained : HasRecord(i)

\* C5 (amended): with deduplication disabled there is no deduplicator, and
\* every drained record of version 3 that the walk reached and whose snapshot
\* did not fail with OtherError has an emitted record once its fd is closed,
\* also when its (pid, mask, path) equals that of the record before it.
C5_EveryInspectedEventEmitted ==
    verbose =>
        /\ dedup = None
        /\ \A i \in DOMAIN drained :
              (closes[i] = 1 /\ drained[i].snap # "OtherError") => HasRecord(i)

\* C5 witness: two consecutive records with the same triple were both emitted
\* with deduplication disabled.
C5_Witness ==
    /\ verbose
    /\ Len(drained) = 2
    /\ Triple(drained[1]) = Triple(drained[2])
    /\ HasRecord(1)
    /\ HasRecord(2)

\* C6: every emitted record has one of the event types OPEN, READ, WRITE,
\* and it is the first rule that matches the mask of its source: WRITE when
\* the MODIFY bit is set, else OPEN when the OPEN bit is set, else READ; the
\* type MODIFY is never emitted.
C6_ClassificationFirstMatch ==
    \A j \in DOMAIN out :
        LET m == drained[out[j].src].mask
            t == out[j].rec.event_type
        IN /\ t \in {"OPEN", "READ", "WRITE"}
           /\ t = IF (m \div FAN_MODIFY) % 2 = 1 THEN "WRITE"
                  ELSE IF (m \div FAN_OPEN) % 2 = 1 THEN "OPEN"
                  ELSE "READ"

\* C6 witness: a mask with both the OPEN and the MODIFY bit was emitted as
\* WRITE.
C6_Witness ==
    /\ pc = "classified"
    /\ Len(out) = 1
    /\ drained[1].mask = FAN_OPEN + FAN_MODIFY
    /\ out[1].rec.event_type = "WRITE"

\* C7: a record of version 3 whose snapshot is ProcessGone and which the
\* deduplicator does not suppress has, once its fd is closed, an emitted
\* record with uid 0, gid 0, no container_pid, its own pid and its own file
\* path.
C7_ProcessGoneStillEmitted ==
    \A i \in DOMAIN drained :
        (/\ closes[i] = 1
         /\ drained[i].vers = FANOTIFY_METADATA_VERSION
         /\ drained[i].snap = "ProcessGone"
         /\ fate[i] # "duplicate")
        => \E j \in DOMAIN out :
              /\ out[j].src = i
              /\ out[j].rec.uid = 0
              /\ out[j].rec.gid = 0
              /\ out[j].rec.container_pid = None
              /\ out[j].rec.pid = drained[i].pid
              /\ out[j].rec.file_path = GetPathFromFd(drained[i])

\* C7 witness: a ProcessGone record of the containerised pid was emitted
\* after a record of the same pid with a successful snapshot.
C7_Witness ==
    /\ Len(drained) = 2
    /\ drained[1].pid = 12 /\ drained[1].snap = "Ok" /\ HasRecord(1)
    /\ drained[2].pid = 12 /\ drained[2].snap = "ProcessGone" /\ HasRecord(2)
    /\ closes[2] = 1

InEventLoop == pc \in {"loop", "read", "walk"}

C9_BadVersionAbortsBatchOnly ==
    /\ [](\A i \in DOMAIN drained :
              (fate[i] = "badversion" \/ SkippedByBreak(i)) => ~HasRecord(i))
    /\ [][(/\ pc = "walk"
           /\ offset < len
           /\ Metadata.vers # FANOTIFY_METADATA_VERSION
           /\ fate' # fate)
          => (/\ pc' = "loop"
              /\ out' = out
              /\ fanFd = "open" /\ fanFd' = "open"
              /\ dedup' = dedup /\ lru' = lru
              /\ exitCode' = None)]_vars

\* C9 witness: the walk broke at a record of another version, the record
\* behind it in the batch was left alone, the channel is open and the next
\* read is about to be made.
C9_Witness ==
    /\ pc = "read"
    /\ fanFd = "open"
    /\ Len(drained) = 2
    /\ fate = <<"badversion", "queued">>
    /\ out = <<>>

\* C10: a read that returns would-block, another error or zero bytes (a step
\* of the main thread from the read that ends with len <= 0) emits nothing, leaves the deduplicator and the cache as they were, leaves the
\* channel open, and returns to the head of the loop; from the head of the
\* loop, with the flag still set, the next step of the main thread is a read.
C10_EmptyReadChangesNothing ==
    /\ [][(pc = "read" /\ pc' # pc /\ sig' = sig /\ len' <= 0)
          => (/\ pc' = "loop"
              /\ out' = out
              /\ dedup' = dedup /\ lru' = lru
              /\ openFds' = openFds
              /\ fanFd = "open" /\ fanFd' = "open"
              /\ exitCode' = None)]_vars
    /\ [][(pc = "loop" /\ running /\ pc' # pc) => pc' = "read"]_vars

\* C10 witness: after a read that failed with an error other than would-block
\* the main thread is about to read again, the channel open.
C10_Witness ==
    /\ pc = "read"
    /\ len = -1
    /\ err = "EIO"
    /\ running
    /\ fanFd = "open"
    /\ Len(drained) = 1

\* C11: once the interrupt signal has been delivered (the handler has cleared
\* the running flag), the process eventually terminates, and with exit
\* status 0, wherever in the loop the main thread is at that moment.
C11_InterruptLeadsToExitZero ==
    (sig = "stored") ~> (pc = "exited" /\ exitCode = Some(0))
\* The handler exited the process while a batch was being walked.
C11_Witness ==
    /\ sig = "done"
    /\ pc = "exited"
    /\ exitCode = Some(0)
    /\ \E i \in DOMAIN fate : fate[i] = "queued"

\* C12: when the signal handler terminates the process, no per-event file
\* descriptor handed over by the kernel is still open.
C12_NoEventFdOpenAtHandlerExit ==
    sig = "done" => openFds = {}

\* C13: the fanotify descriptor is opened at most once and, once opened, has
\* been closed when the process has terminated, on every terminating path.
C13_FanFdClosedOnTermination ==
    pc = "exited" => fanFd \in {"none", "closed"}

\* The line main writes to stderr for the error e mentions privilege.
MentionsPrivilege(e) ==
    \E i \in DOMAIN ErrorLine(e) : ErrorLine(e)[i] \in {"privilege", "privileges"}

\* C14 as stated: started with an effective uid other than 0, the process
\* exits with a non-zero status and an error that mentions privilege,
\* whether the directory exists or not, and never opens the channel.
C14_NonRootPrivilegeErrorAlways ==
    (~env.isRoot /\ pc = "exited") =>
        /\ exitCode # None /\ exitCode # Some(0)
        /\ fatal # None /\ MentionsPrivilege(fatal[1])
        /\ fanFd = "none"
\* C14 amended: started with an effective uid other than 0, the process
\* never opens the channel and exits with a non-zero status; the error
\* mentions privilege when the directory exists, and is the
\* directory-does-not-exist error, which does not, when it is missing.
C14_NonRootNeverOpensChannel ==
    ~env.isRoot =>
        /\ fanFd = "none"
        /\ pc \in {"start", "exited"}
        /\ pc = "exited" =>
              /\ exitCode # None /\ exitCode # Some(0)
              /\ fatal # None
              /\ env.dirExists =>
                    fatal = Some(ErrNotRoot) /\ MentionsPrivilege(fatal[1])
              /\ ~env.dirExists =>
                    fatal = Some(ErrDirectoryMissing) /\ ~MentionsPrivilege(fatal[1])
C14_Witness ==
    /\ ~env.isRoot
    /\ env.dirExists
    /\ pc = "exited"
    /\ exitCode = Some(1)
    /\ fatal = Some(ErrNotRoot)

\* Some startup check or call fails in this environment.
StartupFails ==
    ~(env.dirExists /\ env.isRoot /\ env.initOk /\ env.pathValid /\ env.markOk)

C16_JsonOmitsAbsentContainerKeys ==
    \A j \in DOMAIN ret :
        ret[j].fmt = "json" =>
            \A k \in {"container_pid", "container_id"} :
                (out[j].rec[k] # None) <=> (\E i \in DOMAIN ret[j].obj : ret[j].obj[i].key = k)

\* C17: the process cache never holds more than 1024 entries (it never
\* holds more than its capacity, which is below 1024), one entry per pid,
\* whatever sequence of successful snapshots and ProcessGone lookups fills it.
C17_ProcessCacheBounded ==
    /\ Len(lru) <= LRU_CAPACITY
    /\ LRU_CAPACITY <= 1024
    /\ Cardinality({lru[i].k : i \in DOMAIN lru}) = Len(lru)
\* More pids were cached than the cache holds: the oldest one was evicted.
C17_Witness ==
    /\ pc = "cache"
    /\ arg > LRU_CAPACITY
    /\ Len(lru) = LRU_CAPACITY
    /\ LruFind(lru, 1) = 0

\* A character a hexadecimal container id can contain.
IsHex(c) ==
    c \in {"0", "1", "2", "3", "4", "5", "6", "7", "8", "9",
           "a", "b", "c", "d", "e", "f", "A", "B", "C", "D", "E", "F"}

\* C18: a container id that is present has at most 12 characters and only
\* hexadecimal characters, for every cgroup line naming docker or
\* containerd, systemd-style tails (docker-<id>.scope) included.
C18_ContainerIdShortHex ==
    (pc = "cgroup_done" /\ ret # None) =>
        /\ Len(ret[1]) <= 12
        /\ \A i \in DOMAIN ret[1] : IsHex(ret[1][i])

\* The arguments of the j-th call of is_duplicate.
CallTriple(j) == <<ret[j].pid, ret[j].mask, ret[j].path>>
\* The last-seen triple when the j-th call is made: that of a new
\* deduplicator before the first call, the previous arguments afterwards.
LastSeenBefore(j) == IF j = 1 THEN <<0, 0, <<>>>> ELSE CallTriple(j - 1)

\* C19 as stated: from any deduplicator state, two consecutive calls with
\* the same (pid, mask, path) return false, then true.
C19_FalseThenTrue ==
    pc = "dedup" =>
        \A j \in 1..(Len(ret) - 1) :
            CallTriple(j) = CallTriple(j + 1) => (~ret[j].is_dup /\ ret[j + 1].is_dup)
\* C19 amended: of two consecutive calls with the same (pid, mask, path)
\* the second returns true; the first returns false exactly when the
\* last-seen triple before it differs from the arguments.
C19_SecondTrueFirstByState ==
    pc = "dedup" =>
        \A j \in 1..(Len(ret) - 1) :
            CallTriple(j) = CallTriple(j + 1) =>
                /\ ret[j + 1].is_dup
                /\ ~ret[j].is_dup <=> (LastSeenBefore(j) # CallTriple(j))
C19_Witness ==
    /\ pc = "dedup"
    /\ Len(ret) = 3
    /\ CallTriple(1) = CallTriple(2)
    /\ CallTriple(2) = CallTriple(3)
    /\ ~ret[1].is_dup
    /\ ret[2].is_dup
    /\ ret[3].is_dup

\* C20: is_duplicate returns true exactly when pid, mask and path all equal
\* the last-seen triple, and after every call the last-seen triple is the
\* arguments of that call, whatever it returned.
C20_DuplicateIffTripleEqual ==
    pc = "dedup" =>
        /\ \A j \in DOMAIN ret : ret[j].is_dup <=> (CallTriple(j) = LastSeenBefore(j))
        /\ Len(ret) > 0 =>
              <<dedup[1].last_pid, dedup[1].last_mask, dedup[1].last_path>>
                  = CallTriple(Len(ret))
        /\ Len(ret) = 0 => dedup = Some(DedupNew)
\* A call that differs from the one before in the mask alone.
C20_Witness ==
    /\ pc = "dedup"
    /\ Len(ret) = 2
    /\ ret[1].pid = ret[2].pid
    /\ ret[1].path = ret[2].path
    /\ ret[1].mask # ret[2].mask
    /\ ~ret[2].is_dup
    /\ dedup[1].last_mask = ret[2].mask

\* /proc/<pid>/cgroup cannot be read while drained[i] is handled (its
\* process is gone), or the path of its fd cannot be resolved.
ResolutionFails(i) == drained[i].link = None \/ drained[i].snap = "ProcessGone"

C22_HeaderOnceBeforeTextRows ==
    /\ (format # "json" /\ out # <<>>) => headers = <<0>>
    /\ format = "json" => headers = <<>>

\* C23: the snapshot is ProcessGone exactly when the read of the status
\* file fails with NotFound or with OS error 3; any other failure of that
\* read is OtherError; a successful read is never ProcessGone, even when
\* the exe, cmdline and comm reads all fail.
C23_ProcessGoneIffStatusVanished ==
    pc = "snapshot_done" =>
        LET e == arg.statusErr
            vanished == e # None /\ (e[1].kind = "NotFound" \/ e[1].raw = Some(3))
        IN /\ ret.tag = "ProcessGone" <=> vanished
           /\ (e # None /\ ~vanished) => ret.tag = "OtherError"
           /\ e = None => ret.tag = "Ok"
C23_Witness ==
    /\ pc = "snapshot_done"
    /\ arg.statusErr = None
    /\ arg.exe = None
    /\ arg.cmdline = None
    /\ arg.comm = None
    /\ ret.tag = "Ok"

\* C24: when the snapshot of a record returns OtherError, its fd is closed,
\* no record is emitted for it, the deduplicator and the LRU stay as they
\* are, and the walk goes on with the next record of the same batch.
C24_OtherErrorSkipsOneRecord ==
    [][(/\ InWalk
        /\ Metadata.vers = FANOTIFY_METADATA_VERSION
        /\ Metadata.snap = "OtherError"
        /\ fate' # fate) =>
            /\ fate'[CurIndex] = "othererror"
            /\ closes'[CurIndex] = closes[CurIndex] + 1
            /\ Metadata.fd \notin openFds'
            /\ out' = out
            /\ dedup' = dedup
            /\ lru' = lru
            /\ buffer' = buffer
            /\ offset' = offset + Metadata.event_len
            /\ pc' = IF offset' < len THEN "walk" ELSE "loop"]_vars
\* The first record of a batch of two was skipped and the second is next.
C24_Witness ==
    /\ pc = "walk"
    /\ Len(buffer) = 2
    /\ Len(drained) = 2
    /\ fate = <<"othererror", "queued">>
    /\ closes = <<1, 0>>
    /\ out = <<>>
    /\ offset = FAN_EVENT_METADATA_LEN

\* C25: every value stored in the LRU is an absolute path: it begins with
\* "/", and is neither the sentinel nor a bare or relative name.
C25_LruValuesAbsolute ==
    pc = "cache" => \A i \in DOMAIN lru : StartsWith(lru[i].v, "/")

\* C26: the process_path of a ProcessGone record of pid p is the LRU entry
\* of p when there is one, is "[p]" when there is none and no path can be
\* obtained for p, and is always an absolute path or "[p]".
C26_GonePathFromLruOrSentinel ==
    [][(pc = "cache" /\ offset' # offset /\ ret'.op = "gone") =>
        LET p == ret'.pid
            held == {i \in DOMAIN lru : lru[i].k = p}
        IN /\ \A i \in held : ret'.exe = lru[i].v
           /\ (held = {} /\ ret'.fetched = PidSentinel(p)) => ret'.exe = PidSentinel(p)
           /\ StartsWith(ret'.exe, "/") \/ ret'.exe = PidSentinel(p)]_vars

\* ---------------------------------------------------------------------
\* C27: uid and gid of a successful snapshot are the second token of the
\* Uid: and Gid: lines whatever white space separates the tokens; an
\* NSpid: line with one pid leaves container_pid absent, one with two or
\* more pids makes container_pid the last of them.
C27_StatusParse ==
    (pc = "snapshot_done" /\ arg.statusErr = None) =>
        /\ ret.tag = "Ok"
        /\ ret.info[1].uid = arg.ids[1]
        /\ ret.info[1].gid = arg.ids[2]
        /\ Len(arg.nspid) = 1 => ret.info[1].container_pid = None
        /\ Len(arg.nspid) >= 2 =>
               ret.info[1].container_pid = Some(arg.nspid[Len(arg.nspid)])

C27_Witness ==
    /\ pc = "snapshot_done" /\ arg.statusErr = None
    /\ arg.ws = <<" ", "\t", " ", " ">>
    /\ arg.ids = <<33, 34>>
    /\ arg.nspid = <<7, 5, 2>>
    /\ ret.info[1].uid = 33 /\ ret.info[1].gid = 34
    /\ ret.info[1].container_pid = Some(2)

\* ---------------------------------------------------------------------
\* C28: when the exe link does not resolve and the first cmdline argument
\* is not empty, the exe is that argument if it begins with "/", else
\* /usr/bin/<arg> if that exists, else /bin/<arg> if that exists; when the
\* exe link resolves the exe is the link target (without its deleted
\* marker) whatever cmdline and comm hold.
C28_FirstArg == arg.cmdline[1][1]

C28_HasFirstArg ==
    /\ arg.cmdline # None
    /\ arg.cmdline[1] # <<>>
    /\ C28_FirstArg # <<>>

C28_CmdlineFallback ==
    (pc = "snapshot_done" /\ arg.statusErr = None) =>
        /\ (arg.exe = None /\ C28_HasFirstArg) =>
              /\ StartsWith(C28_FirstArg, "/") => ret.info[1].exe = C28_FirstArg
              /\ (/\ ~StartsWith(C28_FirstArg, "/")
                  /\ (UsrBinPrefix \o C28_FirstArg) \in arg.exists)
                    => ret.info[1].exe = UsrBinPrefix \o C28_FirstArg
              /\ (/\ ~StartsWith(C28_FirstArg, "/")
                  /\ (UsrBinPrefix \o C28_FirstArg) \notin arg.exists
                  /\ (BinPrefix \o C28_FirstArg) \in arg.exists)
                    => ret.info[1].exe = BinPrefix \o C28_FirstArg
        /\ arg.exe # None => ret.info[1].exe = ExeCat

C28_Witness ==
    /\ pc = "snapshot_done" /\ arg.statusErr = None
    /\ arg.exe = None
    /\ arg.cmdline = Some(<<NameCat, <<"a">>>>)
    /\ arg.exists = {UsrBinCat, ExeCat}
    /\ arg.bin_cache = {}
    /\ ret.info[1].exe = UsrBinCat

\* ---------------------------------------------------------------------
\* C29: in a successful snapshot whose path resolution ended with the
\* sentinel "[<pid>]" (no exe link, no cmdline argument, no comm) and
\* whose status text has a Name the bin cache knows, exe becomes the
\* absolute path the cache holds for that Name.
C29_SentinelResolvedByName ==
    (/\ pc = "snapshot_done" /\ arg.statusErr = None
     /\ arg.exe = None
     /\ arg.cmdline \in {None, Some(<<>>)}
     /\ arg.comm \in {None, Some(<<"\n">>)}
     /\ arg.name = Some(NameCat)
     /\ arg.bin_cache = {[name |-> NameCat, path |-> UsrBinCat]})
        => ret.info[1].exe = UsrBinCat

\* ---------------------------------------------------------------------
\* C30: in a successful snapshot where the exe link does not resolve, the
\* cmdline argument is neither absolute nor found under /usr/bin/ or
\* /bin/ and the bin cache has no entry, exe is the sentinel "[<pid>]";
\* and every exe of a successful snapshot is an absolute path or that
\* sentinel.
C30_AllFail ==
    /\ arg.exe = None
    /\ C28_HasFirstArg => (/\ ~StartsWith(C28_FirstArg, "/")
                           /\ (UsrBinPrefix \o C28_FirstArg) \notin arg.exists
                           /\ (BinPrefix \o C28_FirstArg) \notin arg.exists)
    /\ arg.bin_cache = {}

C30_ExeAbsoluteOrSentinel ==
    (pc = "snapshot_done" /\ ret.tag = "Ok") =>
        /\ C30_AllFail => ret.info[1].exe = PidSentinel(arg.pid)
        /\ \/ StartsWith(ret.info[1].exe, "/")
           \/ ret.info[1].exe = PidSentinel(arg.pid)

\* ---------------------------------------------------------------------
\* C31: the exe path is the link target without its " (deleted)" marker
\* when the target ends with the marker, exactly one marker being removed,
\* and the link target itself otherwise.
EndsWith(s, suffix) ==
    /\ Len(s) >= Len(suffix)
    /\ SubSeq(s, Len(s) - Len(suffix) + 1, Len(s)) = suffix

C31_OneTrailingMarkerStripped ==
    pc = "exelink_done" =>
        IF EndsWith(arg.link, DeletedMarker)
        THEN ret = SubSeq(arg.link, 1, Len(arg.link) - Len(DeletedMarker))
        ELSE ret = arg.link

\* ---------------------------------------------------------------------
\* C32: container_id returns the result of the first cgroup line that
\* contains docker or containerd and has a non-empty segment after its
\* last "/": the first 12 characters of the segment when it has at least
\* 12, the segment itself otherwise; it returns nothing when no line
\* qualifies or the file is unreadable.
C32_Segment(line) == SubSeq(line, RFind(line, "/") + 1, Len(line))

C32_Qualifies(line) ==
    /\ Contains(line, Docker) \/ Contains(line, Containerd)
    /\ RFind(line, "/") # 0
    /\ C32_Segment(line) # <<>>

C32_Expected(content) ==
    IF content = None \/ ~\E k \in DOMAIN content[1] : C32_Qualifies(content[1][k])
    THEN None
    ELSE LET first == CHOOSE k \in DOMAIN content[1] :
                         /\ C32_Qualifies(content[1][k])
                         /\ \A j \in 1..(k - 1) : ~C32_Qualifies(content[1][j])
             seg == C32_Segment(content[1][first])
         IN IF Len(seg) >= 12 THEN Some(SubSeq(seg, 1, 12)) ELSE Some(seg)

C32_FirstQualifyingLine ==
    pc \in {"cgroup_done", "cgroup_panic"} =>
        /\ pc = "cgroup_done"
        /\ ret = C32_Expected(arg)

\* ---------------------------------------------------------------------
\* C33: the bin cache maps each name to its path in the first directory,
\* in scan order (the six fixed directories, then the PATH entries not yet
\* listed, in their order), that holds it; a later directory never
\* replaces the entry; and every call of resolve answers that same value,
\* whatever happens to the directories after the cache was built.
C33_PathEntries ==
    IF arg.path_env = None THEN <<>> ELSE SplitOn(arg.path_env[1], ":")

\* The place of a directory in the scan order.
C33_Rank(d) ==
    IF \E i \in DOMAIN FixedDirs : FixedDirs[i] = d
    THEN CHOOSE i \in DOMAIN FixedDirs : FixedDirs[i] = d
    ELSE Len(FixedDirs) + (CHOOSE i \in DOMAIN C33_PathEntries :
                               /\ C33_PathEntries[i] = d
                               /\ \A j \in 1..(i - 1) : C33_PathEntries[j] # d)

\* The scanned directories that held the name when the cache was built.
C33_Holding(n) ==
    {d \in {FixedDirs[i] : i \in DOMAIN FixedDirs}
            \cup {C33_PathEntries[i] : i \in DOMAIN C33_PathEntries} :
        /\ ReadDir(arg.fs, d) # None
        /\ n \in ReadDir(arg.fs, d)[1]}

C33_Expected(n) ==
    IF C33_Holding(n) = {} THEN None
    ELSE LET d == CHOOSE x \in C33_Holding(n) :
                     \A y \in C33_Holding(n) : C33_Rank(x) <= C33_Rank(y)
         IN Some(d \o <<"/">> \o n)

C33_FirstSeenWinsAndStable ==
    pc = "bincache_ready" =>
        /\ \A n \in BinNames : Resolve(ret.map, n) = C33_Expected(n)
        /\ \A i \in DOMAIN ret.answers :
              ret.answers[i].value = C33_Expected(ret.answers[i].name)

C33_Witness ==
    /\ pc = "bincache_ready"
    /\ arg.path_env = Some(DirHomeBin \o <<":">> \o DirOptBin)
    /\ arg.fs[DirUsrBin] = None
    /\ arg.fs[DirBin] = Some({NameCat})
    /\ arg.fs[DirOptBin] = Some({NameCat, NameSh})
    /\ arg.fs[DirHomeBin] = Some({NameCat})
    /\ arg.now[DirBin] = Some({})
    /\ Len(ret.answers) = 2
    /\ ret.answers[1] = [name |-> NameCat, value |-> Some(DirBin \o <<"/">> \o NameCat)]
    /\ ret.answers[2] = [name |-> NameSh, value |-> Some(DirOptBin \o <<"/">> \o NameSh)]

\* ---------------------------------------------------------------------
\* C34: the last-seen triple of a new deduplicator equals the triple of no
\* event (an event has a mask that is not 0 and a path that is not empty),
\* so the first call of is_duplicate after startup returns false.
C34_Triples ==
    {<<pid, mask, path>> : pid \in EventPids, mask \in Masks, path \in {PathA, Unknown}}

C34_FirstEventNeverDuplicate ==
    pc = "dedup" =>
        /\ Len(ret) = 0 =>
              <<dedup[1].last_pid, dedup[1].last_mask, dedup[1].last_path>>
                  \notin C34_Triples
        /\ Len(ret) >= 1 => ~ret[1].is_dup

\* The first event comes from pid 0 and its path could not be read.
C34_Witness ==
    /\ pc = "dedup"
    /\ Len(ret) >= 1
    /\ ret[1].pid = 0
    /\ ret[1].path = Unknown
    /\ ~ret[1].is_dup

\* ---------------------------------------------------------------------
\* C35: the walk of a batch terminates whatever the buffer holds, records
\* with event_len 0 or with an event_len past the bytes read included:
\* control returns to the outer loop.
C35_WalkTerminates == <>(pc = "loop")

\* ---------------------------------------------------------------------
\* C36 as stated: once the running flag has been cleared no read on the
\* channel is performed any more.
C36_NoReadOnceCleared ==
    [][(~running /\ pc = "read") => pc' \notin {"loop", "walk"}]_vars

\* C36, amended: once the flag has been cleared the loop test fails, so
\* the only read that can still be performed is one whose loop test passed
\* before the flag was cleared; and a walk step taken after the flag was
\* cleared still deals with its record as at any other time.
C36_NoLoopTestPassesOnceCleared ==
    [][/\ (~running /\ pc = "loop") => pc' # "read"
       /\ (cleared # None /\ pc' = "read") => cleared[1].pc = "read"
       /\ (cleared # None /\ InWalk /\ pc' \in {"walk", "loop"} /\ offset' # offset)
             => fate'[CurIndex] \in {"handled", "duplicate", "othererror"}]_vars

\* The flag was cleared between the loop test and the read; the read was
\* still performed and a record of its batch was printed afterwards.
C36_Witness ==
    /\ cleared # None
    /\ cleared[1].pc = "read"
    /\ ~running
    /\ Len(out) > cleared[1].lines
    /\ out[Len(out)].src > Len(drained) - Len(buffer)

\* ---------------------------------------------------------------------
\* C37 as stated: of two consecutive events with the same pid and path
\* whose masks differ, both are emitted, also when both have the same
\* event type.
C37_WholeBatchWalked ==
    /\ pc = "loop"
    /\ \A i \in DOMAIN buffer :
          /\ buffer[i].event_len = FAN_EVENT_METADATA_LEN
          /\ buffer[i].vers = FANOTIFY_METADATA_VERSION

C37_Inspected(i) == buffer[i].snap # "OtherError"
C37_Emitted(i) == \E k \in DOMAIN out : out[k].src = i
C37_Triple(i) == <<buffer[i].pid, buffer[i].mask, PathA>>

C37_SamePidPathOtherMask(i) ==
    /\ C37_Inspected(i) /\ C37_Inspected(i + 1)
    /\ buffer[i].pid = buffer[i + 1].pid
    /\ buffer[i].mask # buffer[i + 1].mask

RECURSIVE C37_LastSeenAfter(_)
\* The triple the deduplicator holds after record i (the state the walk
\* started with for i = 0); a record whose snapshot failed with another
\* error is not shown to it.
C37_LastSeenAfter(i) ==
    IF i = 0 THEN <<arg[1].last_pid, arg[1].last_mask, arg[1].last_path>>
    ELSE IF C37_Inspected(i) THEN C37_Triple(i)
    ELSE C37_LastSeenAfter(i - 1)

C38_MostRecent(p) ==
    IF \E x \in ret.recorded : x[1] = p
    THEN (CHOOSE x \in ret.recorded : x[1] = p)[2]
    ELSE ExeCat

C38_LruHoldsMostRecentExe ==
    (pc = "cache" /\ offset > 0) =>
        /\ \A i \in DOMAIN lru : lru[i].v = C38_MostRecent(lru[i].k)
        /\ ret.op = "gone" =>
              \/ ret.exe = PidSentinel(ret.pid)
              \/ ret.exe = C38_MostRecent(ret.pid)
====
